---- MODULE Spec2Model ----
(***************************************************************************)
(* Model of the ml-service of My_Mind_Mirror: the process-wide Gemini      *)
(* rate gate (GeminiApiClient._wait_for_rate_limit), the retrying invoker  *)
(* (GeminiApiClient.call_gemini_api) and the request-handling paths that   *)
(* reach the generative text service.                                      *)
(*                                                                         *)
(* Time is measured in ticks of 0.01 s, the margin the gate adds to every  *)
(* sleep, so that all durations of the code are integers.                  *)
(***************************************************************************)
EXTENDS Integers, Sequences, FiniteSets, TLC

\* ------------------------------------------------------------ bounds ----
NumThreads == 2
RpmLimit == 2
TpmLimit == 2
MaxTime == 9000
\* invocations of call_gemini_api the gate-level specification follows
MaxCalls == 4
\* pieces in the text of a reply that is parsed
MaxTextLen == 6
\* days in a list handed to detect_anomalies, and those of them that hold
\* other values than the rest
MaxDays == 8
OddPerList == 1

Threads == 1..NumThreads

\* ------------------------------------------------- program constants ----
\* time.sleep margin "+ 0.01" (seconds); one tick of the model clock
SleepMargin == 1
\* self.rpm_window = 60 (seconds), in ticks
rpm_window == 6000
\* self.tpm_window = 60 (seconds), in ticks
tpm_window == 6000
\* stop=stop_after_attempt(5)
MaxAttempts == 5
\* wait_exponential(multiplier=1, min=2, max=10), seconds in ticks
WaitMultiplier == 100
WaitMin == 200
WaitMax == 1000
\* estimated_tokens = len(prompt_text) // 4
CharsPerToken == 4
\* journal_text[:150]
SummaryChars == 150
\* emotion scores and the value 1.0 in thousandths; abs(total_score - 1.0) > 0.01
ScoreOne == 1000
ScoreTolerance == 10
\* the weights of emotion_weights in tenths
WeightOne == 10

\* Config.GEMINI_API_RPM_LIMIT / Config.GEMINI_API_TPM_LIMIT, scaled down
max_requests_per_minute == RpmLimit
max_tokens_per_minute == TpmLimit

NoOwner == 0

\* Prompt lengths a caller may pass: an empty estimate, one that fills the
\* token window exactly, and one that alone exceeds the token limit.
PromptLens == {CharsPerToken - 1,
               CharsPerToken * max_tokens_per_minute,
               CharsPerToken * (max_tokens_per_minute + 1) + 1}

\* The clock advances between program steps by one of these amounts.
TickSteps == {rpm_window \div 2, rpm_window - 1}

VARIABLES
  now,                      \* time.time()
  lock,                     \* GeminiApiClient._lock: owner thread or NoOwner
  requests_timestamps,      \* deque of admitted request times
  current_tokens_in_window,
  tpm_last_reset_time,
  pc,                       \* position of each thread
  prompt_len,               \* len(prompt_text) of the thread's invoke
  response_schema,          \* whether the invoke expects a structured reply
  attempt_number,           \* tenacity attempt counter of the invoke
  wake_at,                  \* end of the thread's current time.sleep
  result,                   \* value returned by call_gemini_api
  escaped,                  \* exception that left call_gemini_api, or "none"
  last_outcome,             \* what the latest attempt of the thread ended with
  acquires,                 \* history: gate calls returned in this invoke
  posts,                    \* history: requests.post calls in this invoke
  stamps,                   \* history: timestamps appended for this invoke
  tokens_added,             \* history: tokens added to the counter for it
  tpm_waits,                \* history: token sleeps in the current gate call
  only_transport_errors,    \* history: every attempt so far raised a transport error
  admissions,               \* history: instants of the latest gate returns
  last_admit,               \* history: the latest gate return
  post_log,                 \* history: who posted, and whether through the gate
  entry,                    \* the operation the thread was asked to perform
  calls,                    \* invocations of call_gemini_api started so far
  last_blocked,             \* history: the latest reply carried a blockReason
  last_content,             \* history: how the content of the latest reply was handled
  response_text,            \* parts[0]["text"] of a reply that is being parsed
  expects_json,             \* whether that reply is parsed with a response_schema
  parsed,                   \* what the parsing of response_text returned
  journal_text,             \* len(journal_text) of an analysis request
  full_analysis,            \* what call_gemini_api returned to the assembler
  analysis,                 \* what get_gemini_journal_analysis returned or raised
  moodScore,                \* response_data["moodScore"], a fraction
  journal_pc,               \* position of the analysis request
  cls_instance,             \* GeminiApiClient._instance: 0 for None, else the object's number
  has_initialized,          \* hasattr(self, '_initialized') of the instance
  ctor_pc,                  \* position of each thread in GeminiApiClient()
  constructed,              \* what GeminiApiClient() returned to each thread, 0 if nothing yet
  import_lock,              \* the thread that is importing gemini_api_client, or NoOwner
  imported,                 \* the import of gemini_api_client is over
  creations,                \* history: objects created by __new__
  inits,                    \* history: runs of the body of __init__
  resets,                   \* history: runs of it after an acquire had recorded state
  constructions,            \* history: GeminiApiClient() calls made after the import
  sentence_model,           \* the embedding model of utils.py: "loaded" or "None"
  store,                    \* USER_MODELS_DIR/<user_id>/kmeans_model.pkl, per user
  tr_pc,                    \* position of each thread in a clustering request
  tr_user,                  \* user_id of the thread's request
  tr_len,                   \* len(journal_texts) of the thread's train call
  tr_k,                     \* n_clusters of the thread's train call
  tr_id,                    \* the number of the thread's train call
  tr_model,                 \* the KMeans object the thread fitted
  tr_offset,                \* position of the thread's file object in the file
  tr_result,                \* what the thread's train call returned
  store_before,             \* history: the store when the thread's train call began
  raced,                    \* history: the call ran while another one for its user did
  trains,                   \* history: train calls begun so far
  loaded,                   \* what the thread's latest load_clustering_model read
  loads,                    \* history: load_clustering_model calls so far
  kmeans_model,             \* the model handed to get_cluster_keywords_semantic
  extraction,               \* what keyword extraction meets in each group
  cluster_themes,           \* what get_cluster_keywords_semantic returned
  label_len,                \* len(journal_texts) of the labelling call
  label_pc,                 \* position of the labelling call
  variant,                  \* which detect_anomalies serves: "ewma" or "window"
  daily_data_list,          \* the list of days handed to detect_anomalies
  anomaly_result,           \* what detect_anomalies returned, or what it raised
  anomaly_pc                \* position of the call of detect_anomalies

gateVars == <<lock, requests_timestamps, current_tokens_in_window, tpm_last_reset_time>>
threadVars == <<pc, prompt_len, response_schema, attempt_number, wake_at, result,
                escaped, last_outcome, last_blocked,
                last_content>>
histVars == <<acquires, posts, stamps, tokens_added, tpm_waits, only_transport_errors,
              admissions, last_admit, post_log>>
clientVars == <<now, gateVars, threadVars, histVars, entry, calls>>
parseVars == <<response_text, expects_json, parsed>>
journalVars == <<journal_text, full_analysis, analysis, moodScore, journal_pc>>
lifeVars == <<cls_instance, has_initialized, ctor_pc, constructed, import_lock, imported,
              creations, inits, resets, constructions>>
trainVars == <<sentence_model, store, tr_pc, tr_user, tr_len, tr_k, tr_id, tr_model, tr_offset,
               tr_result, store_before, raced, trains, loaded, loads>>
labelVars == <<kmeans_model, extraction, cluster_themes, label_len, label_pc>>
clusterVars == <<trainVars, labelVars>>
anomalyVars == <<variant, daily_data_list, anomaly_result, anomaly_pc>>
localVars == <<clusterVars, anomalyVars>>
dataVars == <<parseVars, journalVars, localVars>>
restVars == <<lifeVars, localVars>>
pureVars == <<parseVars, journalVars, restVars>>
vars == <<clientVars, pureVars>>

\* ------------------------------------------------------- the gate -------
\* estimated_tokens = len(prompt_text) // 4
estimated_tokens(len) == len \div CharsPerToken

\* while ts and ts[0] <= current_time - rpm_window: ts.popleft()
RECURSIVE Expire(_, _)
Expire(ts, current_time) ==
  IF ts # <<>> /\ Head(ts) <= current_time - rpm_window
  THEN Expire(Tail(ts), current_time)
  ELSE ts

\* if len(self.requests_timestamps) >= self.max_requests_per_minute
RpmFull_gt(ts) == Len(ts) > max_requests_per_minute
RpmFull(ts) == Len(ts) >= max_requests_per_minute

\* time_to_wait = rpm_window - (current_time - ts[0]) + 0.01
RpmTimeToWait(ts, current_time) == rpm_window - (current_time - Head(ts)) + SleepMargin

\* if current_time - self._tpm_last_reset_time >= self.tpm_window
TpmWindowElapsed(current_time, last_reset) == current_time - last_reset >= tpm_window

\* if self.current_tokens_in_window + tokens_to_add > self.max_tokens_per_minute
TpmExceeded(tokens, tokens_to_add) == tokens + tokens_to_add > max_tokens_per_minute

\* time_to_wait = tpm_window - time_in_current_window + 0.01
TpmTimeToWait(current_time, last_reset) == tpm_window - (current_time - last_reset) + SleepMargin

\* self.current_tokens_in_window += tokens_to_add
AddTokens_forgot(tokens, tokens_to_add) == tokens
AddTokens(tokens, tokens_to_add) == tokens + tokens_to_add

\* the last max_requests_per_minute + 1 gate returns
Remember(adm, t) ==
  LET all == Append(adm, t)
  IN IF Len(all) > max_requests_per_minute + 1 THEN Tail(all) ELSE all

\* Lines 74-75: the tokens are added and the "with self._lock" block is left:
\* the gate call returns, the caller is admitted.
GateReturn(t, tokens, waits) ==
  LET counted == AddTokens(tokens, estimated_tokens(prompt_len[t]))
  IN /\ lock' = NoOwner
     /\ current_tokens_in_window' = counted
     /\ tokens_added' = [tokens_added EXCEPT ![t] = @ + (counted - tokens)]
     /\ pc' = [pc EXCEPT ![t] = "post"]
     /\ acquires' = [acquires EXCEPT ![t] = @ + 1]
     /\ admissions' = Remember(admissions, now)
     /\ last_admit' = [thread |-> t, tokens_to_add |-> estimated_tokens(prompt_len[t]),
                       counter |-> counted, waits |-> waits]

\* Lines 58-74: record the timestamp, then the token window.
RecordAndCount(t, ts, current_time) ==
  LET reset == TpmWindowElapsed(current_time, tpm_last_reset_time)
      tokens == IF reset THEN 0 ELSE current_tokens_in_window
      last_reset == IF reset THEN current_time ELSE tpm_last_reset_time
      tokens_to_add == estimated_tokens(prompt_len[t])
      time_to_wait == TpmTimeToWait(current_time, last_reset)
  IN /\ requests_timestamps' = Append(ts, current_time)
     /\ stamps' = [stamps EXCEPT ![t] = @ + 1]
     /\ IF TpmExceeded(tokens, tokens_to_add) /\ time_to_wait > 0
        THEN /\ lock' = t
             /\ current_tokens_in_window' = tokens
             /\ tpm_last_reset_time' = last_reset
             /\ pc' = [pc EXCEPT ![t] = "tpm_sleep"]
             /\ wake_at' = [wake_at EXCEPT ![t] = now + time_to_wait]
             /\ tpm_waits' = [tpm_waits EXCEPT ![t] = 1]
             /\ UNCHANGED <<acquires, tokens_added, admissions, last_admit>>
        ELSE /\ tpm_last_reset_time' = last_reset
             /\ tpm_waits' = [tpm_waits EXCEPT ![t] = 0]
             /\ GateReturn(t, tokens, 0)
             /\ wake_at' = [wake_at EXCEPT ![t] = 0]

\* _wait_for_rate_limit, from taking the lock to its first sleep or its return
WaitForRateLimit(t) ==
  /\ pc[t] = "attempt"
  /\ lock = NoOwner
  /\ LET ts == Expire(requests_timestamps, now)
     IN IF RpmFull(ts) /\ RpmTimeToWait(ts, now) > 0
        THEN /\ lock' = t
             /\ requests_timestamps' = ts
             /\ pc' = [pc EXCEPT ![t] = "rpm_sleep"]
             /\ wake_at' = [wake_at EXCEPT ![t] = now + RpmTimeToWait(ts, now)]
             /\ UNCHANGED <<current_tokens_in_window, tpm_last_reset_time, acquires,
                            stamps, tokens_added, tpm_waits, admissions, last_admit>>
        ELSE RecordAndCount(t, ts, now)
  /\ UNCHANGED <<now, prompt_len, response_schema, attempt_number, result, escaped,
                 last_outcome, last_blocked,
                 last_content, posts, only_transport_errors, post_log, entry,
                 calls, pureVars>>

\* the request sleep is over: current_time = time.time(), expire again, go on
RpmWake(t) ==
  /\ pc[t] = "rpm_sleep"
  /\ now >= wake_at[t]
  /\ RecordAndCount(t, Expire(requests_timestamps, now), now)
  /\ UNCHANGED <<now, prompt_len, response_schema, attempt_number, result, escaped,
                 last_outcome, last_blocked,
                 last_content, posts, only_transport_errors, post_log, entry,
                 calls, pureVars>>

\* the token sleep is over: counter = 0, window restarts, tokens are added
TpmWake(t) ==
  /\ pc[t] = "tpm_sleep"
  /\ now >= wake_at[t]
  /\ tpm_last_reset_time' = now
  /\ GateReturn(t, 0, tpm_waits[t])
  /\ wake_at' = [wake_at EXCEPT ![t] = 0]
  /\ UNCHANGED <<now, requests_timestamps, prompt_len, response_schema, attempt_number,
                 result, escaped, last_outcome, last_blocked,
                 last_content, posts, stamps, tpm_waits,
                 only_transport_errors, post_log, entry, calls, pureVars>>

\* ---------------------------------------------- the remote's replies ----
\* The text of a reply is a sequence of pieces written one after the other:
\* a code fence, the language tag that may follow an opening fence, a JSON
\* object, a piece in braces that is not JSON, and prose.  Fence stands for
\* the three backquotes of a Markdown code fence.
Fence == "<fence>"
Tag == "json"
Obj == "{\"a\": 1}"
Bad == "{a}"
Word == "Sure: "
Tokens == {Fence, Tag, Obj, Bad, Word}
AllTexts == UNION {[1..n -> Tokens] : n \in 0..MaxTextLen}

\* What one requests.post can end with: a transport failure, or a reply
\* with a status and a body.  A body is undecodable (response.json()
\* raises), decodes to something that is not an object, or is an envelope.
Texts == {<<Obj>>, <<Fence, Tag, Obj, Fence>>, <<Fence, Bad, Fence>>, <<Word>>}
StatusCodes == {200, 404, 429, 503}
NoBody == [kind |-> "undecodable", candidates |-> "absent", blockReason |-> FALSE,
           text |-> <<Word>>]
BlockedBodies == [kind : {"envelope"}, candidates : {"absent", "ok"}, blockReason : {TRUE},
                  text : {<<Obj>>}]
Envelopes ==
  [kind : {"envelope"}, candidates : {"ok"}, blockReason : {FALSE}, text : Texts]
  \cup BlockedBodies
  \cup [kind : {"envelope"}, candidates : {"absent"}, blockReason : {FALSE},
        text : {<<Word>>}]
Bodies == [kind : {"undecodable", "not_object"}, candidates : {"absent"},
           blockReason : {FALSE}, text : {<<Word>>}] \cup Envelopes
Replies == [transport : {"Timeout", "ConnectionError"}, status : {0}, body : {NoBody}]
           \cup [transport : {"ok"}, status : StatusCodes \ {200},
                 body : {NoBody} \cup BlockedBodies]
           \cup [transport : {"ok"}, status : {200}, body : Bodies]

\* json.loads(s): the value decoded, or the exception raised
JsonLoads(s) == IF s = <<Obj>> THEN "dict" ELSE "JSONDecodeError"

SetMin(S) == CHOOSE x \in S : \A y \in S : x <= y
SetMax(S) == CHOOSE x \in S : \A y \in S : x >= y

\* the pieces that begin with "{" and those that end with "}"
OpensBrace(token) == token \in {Obj, Bad}
ClosesBrace(token) == token \in {Obj, Bad}

\* ```(?:json)?\s* matched at piece i: where group 1 has to begin
GroupStart(text, i) == IF i < Len(text) /\ text[i + 1] = Tag THEN i + 2 ELSE i + 1

\* (\{.*\})\s*``` : the pieces at which group 1 may end
GroupEnds(text, s) ==
  {k \in s..(Len(text) - 1) : ClosesBrace(text[k]) /\ text[k + 1] = Fence}

\* the pattern matches with its opening fence at piece i
MatchesAt(text, i) ==
  /\ text[i] = Fence
  /\ GroupStart(text, i) <= Len(text)
  /\ OpensBrace(text[GroupStart(text, i)])
  /\ GroupEnds(text, GroupStart(text, i)) # {}

\* re.search(r'```(?:json)?\s*(\{.*\})\s*```', response_text, re.DOTALL):
\* the leftmost match, its .* as long as it can be, and group 1 of it
ReSearch(text) ==
  LET starts == {i \in 1..Len(text) : MatchesAt(text, i)}
  IN IF starts = {} THEN [found |-> FALSE, group |-> <<>>]
     ELSE LET s == GroupStart(text, SetMin(starts))
          IN [found |-> TRUE, group |-> SubSeq(text, s, SetMax(GroupEnds(text, s)))]

\* Values of call_gemini_api: None, a decoded JSON value, or a text
NoValue == [kind |-> "null", json |-> "none", text |-> <<>>]
JsonValue(kind, value) == [kind |-> kind, json |-> value, text |-> <<>>]
TextValue(text) == [kind |-> "text", json |-> "none", text |-> text]

\* Lines 145-166 of gemini_api_client.py: response_text to the value returned
ParseResponseText(text, schema) ==
  IF ~schema THEN TextValue(text)
  ELSE IF JsonLoads(text) # "JSONDecodeError"
       THEN JsonValue("json_direct", JsonLoads(text))
  ELSE LET json_match == ReSearch(text)
       IN IF json_match.found /\ JsonLoads(json_match.group) # "JSONDecodeError"
          THEN JsonValue("json_fenced", JsonLoads(json_match.group))
          ELSE NoValue

\* if result.get("promptFeedback") and result["promptFeedback"].get("blockReason")
Blocked_never(body) == FALSE
Blocked(body) == body.blockReason

\* response.raise_for_status(): raises for 400 <= status < 600
RaiseForStatus(status) == status >= 400 /\ status < 600

\* Lines 114-169: what one attempt ends with once the gate has admitted it:
\* the exception it raises ("none" if it returns) and the value it returns.
AttemptOutcome_raising(reply, schema) ==
  IF reply.transport # "ok" THEN [raised |-> reply.transport, value |-> "null"]
  ELSE IF (reply.status = 429 \/ reply.status >= 500 \/ reply.status >= 400)
          /\ RaiseForStatus(reply.status)
       THEN [raised |-> "HTTPError", value |-> "null"]
  ELSE IF reply.body.kind = "undecodable" THEN [raised |-> "JSONDecodeError", value |-> "null"]
  ELSE IF reply.body.kind = "not_object" THEN [raised |-> "AttributeError", value |-> "null"]
  ELSE IF reply.body.candidates # "ok" THEN [raised |-> "HTTPError", value |-> "null"]
  ELSE IF Blocked(reply.body) THEN [raised |-> "HTTPError", value |-> "null"]
  ELSE IF ParseResponseText(reply.body.text, schema).kind = "null"
       THEN [raised |-> "HTTPError", value |-> "null"]
  ELSE [raised |-> "none", value |-> ParseResponseText(reply.body.text, schema).kind]
AttemptOutcome(reply, schema) ==
  IF reply.transport # "ok" THEN [raised |-> reply.transport, value |-> "null"]
  ELSE IF (reply.status = 429 \/ reply.status >= 500 \/ reply.status >= 400)
          /\ RaiseForStatus(reply.status)
       THEN [raised |-> "HTTPError", value |-> "null"]
  ELSE IF reply.body.kind = "undecodable" THEN [raised |-> "JSONDecodeError", value |-> "null"]
  ELSE IF reply.body.kind = "not_object" THEN [raised |-> "AttributeError", value |-> "null"]
  ELSE IF reply.body.candidates # "ok" THEN [raised |-> "none", value |-> "null"]
  ELSE IF Blocked(reply.body) THEN [raised |-> "none", value |-> "null"]
  ELSE [raised |-> "none", value |-> ParseResponseText(reply.body.text, schema).kind]

\* What an attempt met: a transport failure, the class of an error status,
\* or the kind of body of a reply with a success status
OutcomeClass(reply) ==
  IF reply.transport # "ok" THEN "transport"
  ELSE IF reply.status = 429 THEN "http429"
  ELSE IF reply.status >= 500 THEN "http5xx"
  ELSE IF reply.status >= 400 THEN "http4xx"
  ELSE reply.body.kind

\* ------------------------------------------------- the retry policy -----
\* retry=retry_if_exception_type((HTTPError, Timeout, ConnectionError))
RetryIfExceptionType(exc) == exc \in {"HTTPError", "Timeout", "ConnectionError"}

\* stop=stop_after_attempt(5)
StopAfterAttempt_early(n) == n >= MaxAttempts - 1
StopAfterAttempt(n) == n >= MaxAttempts

\* exp_base ** k, with the default exp_base of 2
RECURSIVE Pow2(_)
Pow2(k) == IF k = 0 THEN 1 ELSE 2 * Pow2(k - 1)

\* wait=wait_exponential(multiplier=1, min=2, max=10) after attempt n:
\* max(min, min(multiplier * exp_base ** (n - 1), max))
WaitExponential_from_base(n) ==
  LET exp == WaitMultiplier * Pow2(n)
      capped == IF exp < WaitMax THEN exp ELSE WaitMax
  IN IF capped > WaitMin THEN capped ELSE WaitMin
WaitExponential(n) ==
  LET exp == WaitMultiplier * Pow2(n - 1)
      capped == IF exp < WaitMax THEN exp ELSE WaitMax
  IN IF capped > WaitMin THEN capped ELSE WaitMin

\* the except clauses of call_gemini_api: every one returns None
Caught_named_only(exc) == exc \in {"Timeout", "ConnectionError", "HTTPError", "JSONDecodeError"}
Caught(exc) ==
  \/ exc \in {"Timeout", "ConnectionError", "HTTPError", "JSONDecodeError"}
  \/ exc \in {"AttributeError", "TypeError"}        \* except Exception

\* How lines 134-169 handle the content of a reply with a success status
\* whose body is an object: "none" for every other reply
ContentHandling(reply, schema) ==
  IF reply.transport # "ok" \/ RaiseForStatus(reply.status) \/ reply.body.kind # "envelope"
  THEN "none"
  ELSE IF reply.body.blockReason THEN "blocked"
  ELSE IF reply.body.candidates # "ok" THEN "no_candidates"
  ELSE IF schema /\ JsonLoads(reply.body.text) = "JSONDecodeError"
                 /\ ~(ReSearch(reply.body.text).found
                      /\ JsonLoads(ReSearch(reply.body.text).group) # "JSONDecodeError")
       THEN "undecoded_text"
  ELSE "handled"

\* ------------------------------------------------- the invoker ----------
\* call_gemini_api(prompt_text, response_schema): the first attempt begins
CallGeminiApi(t, len, schema) ==
  /\ pc[t] = "idle"
  /\ prompt_len' = [prompt_len EXCEPT ![t] = len]
  /\ response_schema' = [response_schema EXCEPT ![t] = schema]
  /\ pc' = [pc EXCEPT ![t] = "attempt"]
  /\ attempt_number' = [attempt_number EXCEPT ![t] = 1]
  /\ entry' = [entry EXCEPT ![t] = "client"]
  /\ calls' = calls + 1
  /\ UNCHANGED <<now, gateVars, wake_at, result, escaped, last_outcome, last_blocked,
                 last_content,
                 histVars, pureVars>>

\* requests.post and the handling of its reply, the retry decision of
\* tenacity, and, when the invoke ends, the except clauses of call_gemini_api
Post(t, reply) ==
  /\ pc[t] = "post"
  /\ posts' = [posts EXCEPT ![t] = @ + 1]
  /\ post_log' = post_log \cup {[caller |-> "GeminiApiClient",
                                 gated |-> acquires[t] = posts[t] + 1]}
  /\ last_outcome' = [last_outcome EXCEPT ![t] = OutcomeClass(reply)]
  /\ last_blocked' = [last_blocked EXCEPT ![t] =
                        IF ~reply.body.blockReason THEN "none"
                        ELSE IF reply.body.candidates = "ok" THEN "with_text"
                        ELSE "without_text"]
  /\ last_content' = [last_content EXCEPT ![t] = ContentHandling(reply, response_schema[t])]
  /\ only_transport_errors' =
       [only_transport_errors EXCEPT ![t] = @ /\ reply.transport # "ok"]
  /\ LET out == AttemptOutcome(reply, response_schema[t])
     IN IF out.raised = "none"
        THEN /\ pc' = [pc EXCEPT ![t] = "done"]
             /\ result' = [result EXCEPT ![t] = out.value]
             /\ UNCHANGED <<escaped, wake_at>>
        ELSE IF RetryIfExceptionType(out.raised) /\ ~StopAfterAttempt(attempt_number[t])
        THEN /\ pc' = [pc EXCEPT ![t] = "backoff"]
             /\ wake_at' = [wake_at EXCEPT ![t] = now + WaitExponential(attempt_number[t])]
             /\ UNCHANGED <<result, escaped>>
        ELSE /\ pc' = [pc EXCEPT ![t] = "done"]
             /\ IF Caught(out.raised)
                THEN result' = [result EXCEPT ![t] = "null"] /\ UNCHANGED escaped
                ELSE escaped' = [escaped EXCEPT ![t] = out.raised] /\ UNCHANGED result
             /\ UNCHANGED wake_at
  /\ UNCHANGED <<now, gateVars, prompt_len, response_schema, attempt_number, acquires,
                 stamps, tokens_added, tpm_waits, admissions, last_admit, entry, calls, pureVars>>

\* the backoff sleep of tenacity is over: the next attempt begins
Retry(t) ==
  /\ pc[t] = "backoff"
  /\ now >= wake_at[t]
  /\ pc' = [pc EXCEPT ![t] = "attempt"]
  /\ attempt_number' = [attempt_number EXCEPT ![t] = @ + 1]
  /\ wake_at' = [wake_at EXCEPT ![t] = 0]
  /\ last_outcome' = [last_outcome EXCEPT ![t] = "none"]
  /\ last_blocked' = [last_blocked EXCEPT ![t] = "none"]
  /\ last_content' = [last_content EXCEPT ![t] = "none"]
  /\ UNCHANGED <<now, gateVars, prompt_len, response_schema, result, escaped,
                 histVars, entry, calls, pureVars>>

\* ------------------------------------------- the request handlers -------
\* The paths of the route layer that ask the generative text service, the
\* helper each one calls and the arguments it passes to it.
Paths == {"journal", "milestone", "reflection"}

\* journal/routes.py and milestone/routes.py import call_gemini_api from
\* modules.common.utils; generate_reflection calls the one of app.py
Callee(path) == IF path = "reflection" THEN "app.call_gemini_api"
                ELSE "utils.call_gemini_api"

\* the arguments of the call: journal passes temperature= and timeout= too
CallArgs(path) ==
  CASE path = "journal" -> {"prompt_text", "response_schema", "temperature", "timeout"}
    [] path = "milestone" -> {"prompt_text", "response_schema"}
    [] path = "reflection" -> {"prompt_text"}

\* def call_gemini_api(prompt_text, response_schema=None) in utils.py and app.py
HelperParams == {"prompt_text", "response_schema"}

\* the helpers of utils.py and app.py never call _wait_for_rate_limit
AcquiresGate(callee) == callee = "GeminiApiClient.call_gemini_api"

\* Lines 88-103 of utils.py: the fenced block first, then the text as it is
HelperParseText(text, schema) ==
  IF ~schema THEN TextValue(text)
  ELSE LET json_match == ReSearch(text)
           parsed_text_content == IF json_match.found THEN json_match.group ELSE text
       IN IF JsonLoads(parsed_text_content) = "JSONDecodeError" THEN NoValue
          ELSE JsonValue(IF json_match.found THEN "json_fenced" ELSE "json_direct",
                         JsonLoads(parsed_text_content))

\* utils.call_gemini_api / app.call_gemini_api once the arguments are bound:
\* one requests.post, raise_for_status, fenced block first, every exception
\* turned into None
HelperOutcome(reply, schema) ==
  IF reply.transport # "ok" THEN "null"
  ELSE IF RaiseForStatus(reply.status) THEN "null"
  ELSE IF reply.body.kind = "undecodable" THEN "null"
  ELSE IF reply.body.kind = "not_object" THEN "null"
  ELSE IF reply.body.candidates # "ok" THEN "null"
  ELSE HelperParseText(reply.body.text, schema).kind

\* One request served by a route handler, up to the return of its helper
\* call: a call whose keywords the helper does not declare raises TypeError
\* before anything is posted, and no handler on the way catches it.
RouteRequest(t, path, reply) ==
  /\ pc[t] = "idle"
  /\ pc' = [pc EXCEPT ![t] = "done"]
  /\ entry' = [entry EXCEPT ![t] = path]
  /\ IF CallArgs(path) \subseteq HelperParams
     THEN /\ result' = [result EXCEPT ![t] =
                          HelperOutcome(reply, "response_schema" \in CallArgs(path))]
          /\ posts' = [posts EXCEPT ![t] = @ + 1]
          /\ post_log' = post_log \cup {[caller |-> Callee(path),
                                         gated |-> AcquiresGate(Callee(path))]}
          /\ UNCHANGED escaped
     ELSE /\ escaped' = [escaped EXCEPT ![t] = "TypeError"]
          /\ UNCHANGED <<result, posts, post_log>>
  /\ UNCHANGED <<now, gateVars, prompt_len, response_schema, attempt_number, wake_at,
                 last_outcome, last_blocked,
                 last_content, acquires, stamps, tokens_added, tpm_waits,
                 only_transport_errors, admissions, last_admit, calls, pureVars>>

\* ------------------------------------------------------ the clock -------
Sleeping(t) == pc[t] \in {"rpm_sleep", "tpm_sleep", "backoff"}

\* time passes while the threads run
Tick(d) ==
  /\ now + d <= MaxTime
  /\ now' = now + d
  /\ UNCHANGED <<gateVars, threadVars, histVars, entry, calls, pureVars>>

\* time passes until the next sleeper is due
SleepElapse ==
  /\ \E t \in Threads : Sleeping(t) /\ wake_at[t] > now
  /\ now' = CHOOSE w \in {wake_at[t] : t \in {u \in Threads : Sleeping(u) /\ wake_at[u] > now}} :
              \A t \in Threads : Sleeping(t) /\ wake_at[t] > now => w <= wake_at[t]
  /\ UNCHANGED <<gateVars, threadVars, histVars, entry, calls, pureVars>>

\* the caller has its answer; the thread is free to serve the next request
Return(t) ==
  /\ pc[t] = "done"
  /\ pc' = [pc EXCEPT ![t] = "idle"]
  /\ entry' = [entry EXCEPT ![t] = "none"]
  /\ prompt_len' = [prompt_len EXCEPT ![t] = 0]
  /\ response_schema' = [response_schema EXCEPT ![t] = FALSE]
  /\ attempt_number' = [attempt_number EXCEPT ![t] = 0]
  /\ result' = [result EXCEPT ![t] = "none"]
  /\ escaped' = [escaped EXCEPT ![t] = "none"]
  /\ last_outcome' = [last_outcome EXCEPT ![t] = "none"]
  /\ last_blocked' = [last_blocked EXCEPT ![t] = "none"]
  /\ last_content' = [last_content EXCEPT ![t] = "none"]
  /\ acquires' = [acquires EXCEPT ![t] = 0]
  /\ posts' = [posts EXCEPT ![t] = 0]
  /\ stamps' = [stamps EXCEPT ![t] = 0]
  /\ tokens_added' = [tokens_added EXCEPT ![t] = 0]
  /\ only_transport_errors' = [only_transport_errors EXCEPT ![t] = TRUE]
  /\ UNCHANGED <<now, gateVars, wake_at, tpm_waits, admissions, last_admit, post_log,
                 calls, pureVars>>

\* ------------------------------------------- the parsing of a reply ----
\* no reply text is being parsed
NoParse == [kind |-> "pending", json |-> "none", text |-> <<>>]

\* Lines 138-166 of gemini_api_client.py applied to the text of a reply that
\* has candidates and is not blocked
ParseReply ==
  /\ parsed = NoParse
  /\ parsed' = ParseResponseText(response_text, expects_json)
  /\ UNCHANGED <<clientVars, response_text, expects_json, journalVars, restVars>>

\* ------------------------------------- the analysis of a journal text ----
\* The emotion labels of a remote analysis: one the weight table knows in
\* another case, one it knows as written, one it does not know.
Labels == {"Joy", "sadness", "zest"}

\* A score of the remote mapping: a JSON number, a string that float() reads
\* as a number, another string, null; Absent when the mapping has no such
\* key.  Numbers are in thousandths.
Absent == [kind |-> "absent", val |-> 0]
ScoreChoices ==
  {Absent} \cup [kind : {"number"}, val : {-500, 0, 5, 500, 520}]
  \cup {[kind |-> "numeric_string", val |-> 500],
        [kind |-> "string", val |-> 0], [kind |-> "null", val |-> 0]}
NoScores == [l \in Labels |-> Absent]
GoodScores == [l \in Labels |-> IF l = "zest" THEN Absent
                                ELSE [kind |-> "number", val |-> 500]]

\* the value under "emotions", under a list-valued key, and under "summary"
RemoteEmotions == [shape : {"mapping"}, scores : [Labels -> ScoreChoices]]
                  \cup [shape : {"missing", "not_mapping"}, scores : {NoScores}]
RemoteLists == {"missing", "not_list", "list"}
RemoteSummaries == {"missing", "not_str", "str"}

\* What call_gemini_api may hand to the assembler: None, a decoded value
\* that is not an object, or an object
RemoteValue(top, e, c, g, k, s) ==
  [top |-> top, emotions |-> e, coreConcerns |-> c, growthTips |-> g,
   keyPhrases |-> k, summary |-> s]
NoFields(top) ==
  RemoteValue(top, [shape |-> "missing", scores |-> NoScores],
              "missing", "missing", "missing", "missing")
FullAnalyses ==
  {NoFields("null"), NoFields("not_object")}
  \cup {RemoteValue("object", e, "list", "list", "list", "str") : e \in RemoteEmotions}
  \cup {RemoteValue("object", e, f[1], f[2], f[3], f[4]) :
          e \in {[shape |-> "mapping", scores |-> GoodScores],
                 [shape |-> "missing", scores |-> NoScores],
                 [shape |-> "not_mapping", scores |-> NoScores]},
          f \in RemoteLists \X RemoteLists \X RemoteLists \X RemoteSummaries}

\* len(journal_text) of the texts analysed
JournalTexts == {1, SummaryChars, SummaryChars + 1, 2 * SummaryChars + 100}

\* float(score), and 0.0 on ValueError or TypeError
FloatOf(score) == IF score.kind \in {"number", "numeric_string"} THEN score.val ELSE 0

RECURSIVE SumOver(_, _)
SumOver(f, S) ==
  IF S = {} THEN 0
  ELSE LET x == CHOOSE y \in S : TRUE IN f[x] + SumOver(f, S \ {x})

Abs(x) == IF x < 0 THEN -x ELSE x

\* if total_score > 0 and abs(total_score - 1.0) > 0.01
NeedsNormalizing_exact(total_score) == total_score > 0 /\ total_score # ScoreOne
NeedsNormalizing(total_score) ==
  total_score > 0 /\ Abs(total_score - ScoreOne) > ScoreTolerance

\* the keys of raw_emotions
Keys(scores) == {l \in Labels : scores[l].kind # "absent"}

\* Lines 116-132: the scores as floats, divided by their sum where the sum
\* calls for it.  The score of key l is num[l] / den.
ProcessEmotions(scores) ==
  LET processed_emotions == [l \in Labels |-> IF l \in Keys(scores)
                                              THEN FloatOf(scores[l]) ELSE 0]
      total_score == SumOver(processed_emotions, Keys(scores))
  IN [keys |-> Keys(scores), num |-> processed_emotions,
      den |-> IF NeedsNormalizing(total_score) THEN total_score ELSE ScoreOne]

\* Lines 135-138 and 145-148: coreConcerns and keyPhrases
CoerceList(value) == IF value = "list" THEN "list" ELSE "[]"

\* Lines 140-143: growthTips
GrowthTipsOf(value) ==
  CASE value = "list" -> "list"
    [] value = "missing" -> "[]"
    [] OTHER -> "[encouragement]"

\* journal_text[:150] + "..." if len(journal_text) > 150 else journal_text
SummaryFallback_at(len) ==
  IF len >= SummaryChars
  THEN [source |-> "journal_text", chars |-> SummaryChars, ellipsis |-> TRUE]
  ELSE [source |-> "journal_text", chars |-> len, ellipsis |-> FALSE]
SummaryFallback(len) ==
  IF len > SummaryChars
  THEN [source |-> "journal_text", chars |-> SummaryChars, ellipsis |-> TRUE]
  ELSE [source |-> "journal_text", chars |-> len, ellipsis |-> FALSE]

\* Lines 150-153: summary
RemoteSummary == [source |-> "remote", chars |-> 0, ellipsis |-> FALSE]
SummaryOf_unchecked(value, len) ==
  IF value # "missing" THEN RemoteSummary ELSE SummaryFallback(len)
SummaryOf(value, len) ==
  IF value = "str" THEN RemoteSummary ELSE SummaryFallback(len)

\* what get_gemini_journal_analysis ends with: a record, or an exception
NoEmotions == [keys |-> {}, num |-> [l \in Labels |-> 0], den |-> ScoreOne]
Analysis(raised, e, c, g, k, s) ==
  [raised |-> raised, emotions |-> e, coreConcerns |-> c, growthTips |-> g,
   keyPhrases |-> k, summary |-> s]
Raises(exc) == Analysis(exc, NoEmotions, "[]", "[]", "[]", RemoteSummary)
NoAnalysis == Raises("pending")

\* Lines 105-155 of journal/routes.py: full_analysis to the record returned
AssembleAnalysis(full, len) ==
  IF full.top = "null"
  THEN Analysis("none", NoEmotions, "[]", "[encouragement]", "[]", SummaryFallback(len))
  ELSE IF full.top # "object" THEN Raises("AttributeError")
  ELSE IF full.emotions.shape = "not_mapping" THEN Raises("AttributeError")
  ELSE Analysis("none", ProcessEmotions(full.emotions.scores),
                CoerceList(full.coreConcerns), GrowthTipsOf(full.growthTips),
                CoerceList(full.keyPhrases), SummaryOf(full.summary, len))

\* emotion_weights, in tenths
EmotionWeights ==
  [joy |-> 10, love |-> 10, surprise |-> 5, amusement |-> 5, excitement |-> 8,
   sadness |-> -10, anger |-> -8, fear |-> -7, disappointment |-> -6, grief |-> -10,
   neutral |-> 0, optimism |-> 7, relief |-> 4, caring |-> 6, curiosity |-> 3,
   embarrassment |-> -4, pride |-> 5, remorse |-> -5, annoyance |-> -3,
   disgust |-> -6, stress |-> -7, frustration |-> -5, gratitude |-> 9, hope |-> 8]

\* emotion.lower()
Lower_as_written(label) == label
Lower(label) == IF label = "Joy" THEN "joy" ELSE label

\* emotion_weights.get(emotion.lower(), 0.0)
Weight(label) ==
  IF Lower(label) \in DOMAIN EmotionWeights THEN EmotionWeights[Lower(label)] ELSE 0

\* Lines 191-203: calculated_mood_score / total_emotion_score, or 0.0
MoodScore(emotions) ==
  LET weighted == [l \in Labels |-> emotions.num[l] * Weight(l)]
      calculated_mood_score == SumOver(weighted, emotions.keys)
      total_emotion_score == SumOver(emotions.num, emotions.keys)
  IN IF emotions.keys # {} /\ total_emotion_score > 0
     THEN [num |-> calculated_mood_score, den |-> WeightOne * total_emotion_score]
     ELSE [num |-> 0, den |-> 1]

\* get_gemini_journal_analysis from the return of its call_gemini_api on
GetGeminiJournalAnalysis ==
  /\ journal_pc = "called"
  /\ analysis' = AssembleAnalysis(full_analysis, journal_text)
  /\ journal_pc' = IF AssembleAnalysis(full_analysis, journal_text).raised = "none"
                   THEN "assembled" ELSE "failed"
  /\ UNCHANGED <<clientVars, parseVars, journal_text, full_analysis, moodScore, restVars>>

\* analyze_journal from the return of get_gemini_journal_analysis on
AnalyzeJournal ==
  /\ journal_pc = "assembled"
  /\ moodScore' = MoodScore(analysis.emotions)
  /\ journal_pc' = "responded"
  /\ UNCHANGED <<clientVars, parseVars, journal_text, full_analysis, analysis, restVars>>

\* ------------------------------------- the construction of the client ---
\* Line 190 of gemini_api_client.py constructs the client while the module
\* is imported; Python's import lock lets no other thread reach the class
\* before the import is over.  A thread constructs in steps: __new__ reads
\* _instance, takes _lock and reads it again, then __init__ tests the
\* _initialized attribute, assigns the state and sets the attribute last.
MaxConstructions == 2

\* if not hasattr(self, '_initialized')
NeedsInit_always(flag) == TRUE
NeedsInit(flag) == ~flag

\* gemini_api_client = GeminiApiClient(), in the thread that imports the module
ImportModule(t) ==
  /\ ~imported /\ import_lock = NoOwner
  /\ ctor_pc[t] = "idle" /\ pc[t] = "idle"
  /\ import_lock' = t
  /\ ctor_pc' = [ctor_pc EXCEPT ![t] = "new"]
  /\ UNCHANGED <<clientVars, dataVars, cls_instance, has_initialized,
                 constructed, imported, creations, inits, resets, constructions>>

\* GeminiApiClient() called by a thread once the module is imported
Construct(t) ==
  /\ imported /\ constructions < MaxConstructions
  /\ ctor_pc[t] = "idle" /\ pc[t] = "idle"
  /\ ctor_pc' = [ctor_pc EXCEPT ![t] = "new"]
  /\ constructed' = [constructed EXCEPT ![t] = 0]
  /\ constructions' = constructions + 1
  /\ UNCHANGED <<clientVars, dataVars, cls_instance, has_initialized,
                 import_lock, imported, creations, inits, resets>>

\* __new__, line 20: if not cls._instance, read without the lock
New(t) ==
  /\ ctor_pc[t] = "new"
  /\ ctor_pc' = [ctor_pc EXCEPT ![t] = IF cls_instance = 0 THEN "new_locked" ELSE "init"]
  /\ constructed' = [constructed EXCEPT ![t] = cls_instance]
  /\ UNCHANGED <<clientVars, dataVars, cls_instance, has_initialized,
                 import_lock, imported, creations, inits, resets, constructions>>

\* __new__, lines 21-24: with cls._lock: if not cls._instance: create it
NewLocked(t) ==
  /\ ctor_pc[t] = "new_locked"
  /\ lock = NoOwner
  /\ ctor_pc' = [ctor_pc EXCEPT ![t] = "init"]
  /\ IF cls_instance = 0
     THEN /\ cls_instance' = creations + 1
          /\ creations' = creations + 1
     ELSE UNCHANGED <<cls_instance, creations>>
  /\ constructed' = [constructed EXCEPT ![t] = cls_instance']
  /\ UNCHANGED <<clientVars, dataVars, has_initialized, import_lock,
                 imported, inits, resets, constructions>>

\* __init__, line 27: if not hasattr(self, '_initialized')
InitCheck(t) ==
  /\ ctor_pc[t] = "init"
  /\ ctor_pc' = [ctor_pc EXCEPT ![t] = IF NeedsInit(has_initialized) THEN "init_state"
                                       ELSE "return"]
  /\ UNCHANGED <<clientVars, dataVars, cls_instance, has_initialized, constructed,
                 import_lock, imported, creations, inits, resets, constructions>>

\* __init__, lines 28-36: the assignments that create the rate-window state
InitState(t) ==
  /\ ctor_pc[t] = "init_state"
  /\ requests_timestamps' = <<>>
  /\ current_tokens_in_window' = 0
  /\ tpm_last_reset_time' = now
  /\ inits' = inits + 1
  /\ resets' = IF admissions # <<>> THEN resets + 1 ELSE resets
  /\ ctor_pc' = [ctor_pc EXCEPT ![t] = "init_flag"]
  /\ UNCHANGED <<now, lock, threadVars, histVars, entry, calls, dataVars,
                 cls_instance, has_initialized, constructed, import_lock, imported,
                 creations, constructions>>

\* __init__, line 38: self._initialized = True
InitFlag(t) ==
  /\ ctor_pc[t] = "init_flag"
  /\ has_initialized' = TRUE
  /\ ctor_pc' = [ctor_pc EXCEPT ![t] = "return"]
  /\ UNCHANGED <<clientVars, dataVars, cls_instance, constructed,
                 import_lock, imported, creations, inits, resets, constructions>>

\* GeminiApiClient() returns; the import ends when line 190 has its instance
Constructed(t) ==
  /\ ctor_pc[t] = "return"
  /\ ctor_pc' = [ctor_pc EXCEPT ![t] = "idle"]
  /\ IF import_lock = t
     THEN imported' = TRUE /\ import_lock' = NoOwner
     ELSE UNCHANGED <<imported, import_lock>>
  /\ UNCHANGED <<clientVars, dataVars, cls_instance, has_initialized,
                 constructed, creations, inits, resets, constructions>>

\* ------------------------------------------- the cluster manager -------
\* train_and_save_clustering_model, load_clustering_model and
\* get_cluster_keywords_semantic of journal/routes.py.  A model file is
\* written by joblib.dump through a file object opened for writing on the
\* final path: the open truncates the file, and the pickle then reaches it
\* in several writes, each at the position of that file object.
NumUsers == 2
MaxTexts == 3
MaxTrains == 3
MaxLoads == 1
BlobChunks == 2

Users == 1..NumUsers

\* n_clusters as the caller passes it: an integer, or a value int() rejects
RequestedKs == [kind : {"int"}, val : 0..(MaxTexts + 1)] \cup {[kind |-> "invalid", val |-> 0]}

\* try: int(n_clusters) except (ValueError, TypeError): 5
DefaultClusters == 5
IntOf(n_clusters) == IF n_clusters.kind = "int" THEN n_clusters.val ELSE DefaultClusters

Min(a, b) == IF a < b THEN a ELSE b

\* actual_n_clusters = min(n_clusters_int, len(journal_texts))
ActualClusters_requested(n_clusters, len) == IntOf(n_clusters)
ActualClusters(n_clusters, len) == Min(IntOf(n_clusters), len)

\* None, and the KMeans object that call number id fitted
NoModel == [id |-> 0, n_clusters |-> 0]
KMeans(id, n) == [id |-> id, n_clusters |-> n]

\* Lines 362-385: what train fits, None when it returns before fitting
Fit(id, len, n_clusters, model) ==
  IF len = 0 THEN NoModel
  ELSE IF model = "None" THEN NoModel
  ELSE IF ActualClusters(n_clusters, len) <= 1 THEN NoModel
  ELSE KMeans(id, ActualClusters(n_clusters, len))

\* A file: whether it exists and, piece by piece, the call whose pickle the
\* piece comes from (0 for a piece nothing was written to)
NoFile == [exists |-> FALSE, data |-> <<>>]
EmptyFile == [exists |-> TRUE, data |-> <<>>]

\* write one piece at the position offset of a file object
WriteAt(data, offset, id) ==
  [i \in 1..(IF offset + 1 > Len(data) THEN offset + 1 ELSE Len(data)) |->
     IF i = offset + 1 THEN id
     ELSE IF i <= Len(data) THEN data[i]
     ELSE 0]

\* the file holds the whole pickle of one call
WholeBlob(file) ==
  /\ file.exists
  /\ Len(file.data) = BlobChunks
  /\ \A i \in 1..BlobChunks : file.data[i] = file.data[1] /\ file.data[i] # 0

BlobOf(id) == [exists |-> TRUE, data |-> [i \in 1..BlobChunks |-> id]]

\* os.path.join(Config.USER_MODELS_DIR, str(user_id), 'kmeans_model.pkl'):
\* the file of a user
KmeansPath_shared(user_id) == 1
KmeansPath(user_id) == user_id

Training(t) == tr_pc[t] \in {"train", "open", "write"}

\* train_and_save_clustering_model(user_id, journal_texts, n_clusters) is called
Train(t, user_id, len, n_clusters) ==
  /\ tr_pc[t] = "idle"
  /\ trains < MaxTrains
  /\ trains' = trains + 1
  /\ tr_pc' = [tr_pc EXCEPT ![t] = "train"]
  /\ tr_user' = [tr_user EXCEPT ![t] = user_id]
  /\ tr_len' = [tr_len EXCEPT ![t] = len]
  /\ tr_k' = [tr_k EXCEPT ![t] = n_clusters]
  /\ tr_id' = [tr_id EXCEPT ![t] = trains + 1]
  /\ tr_model' = [tr_model EXCEPT ![t] = NoModel]
  /\ tr_result' = [tr_result EXCEPT ![t] = NoModel]
  /\ tr_offset' = [tr_offset EXCEPT ![t] = 0]
  /\ store_before' = [store_before EXCEPT ![t] = store]
  /\ raced' = [u \in Threads |->
                 IF u = t THEN \E o \in Threads \ {t} : Training(o) /\ tr_user[o] = user_id
                 ELSE raced[u] \/ (Training(u) /\ tr_user[u] = user_id)]
  /\ UNCHANGED <<clientVars, parseVars, journalVars, lifeVars, anomalyVars, labelVars,
                 sentence_model, store, loaded, loads>>

\* lines 362-385: the early returns, the embedding and kmeans.fit
FitModel(t) ==
  /\ tr_pc[t] = "train"
  /\ LET kmeans == Fit(tr_id[t], tr_len[t], tr_k[t], sentence_model)
     IN /\ tr_model' = [tr_model EXCEPT ![t] = kmeans]
        /\ tr_pc' = [tr_pc EXCEPT ![t] = IF kmeans = NoModel THEN "returned" ELSE "open"]
  /\ UNCHANGED <<clientVars, parseVars, journalVars, lifeVars, anomalyVars, labelVars,
                 sentence_model, store, tr_user, tr_len, tr_k, tr_id, tr_offset, tr_result,
                 store_before, raced, trains, loaded, loads>>

\* lines 387-391: os.makedirs, then joblib.dump opens the file for writing
DumpOpen(t) ==
  /\ tr_pc[t] = "open"
  /\ store' = [store EXCEPT ![KmeansPath(tr_user[t])] = EmptyFile]
  /\ tr_offset' = [tr_offset EXCEPT ![t] = 0]
  /\ tr_pc' = [tr_pc EXCEPT ![t] = "write"]
  /\ UNCHANGED <<clientVars, parseVars, journalVars, lifeVars, anomalyVars, labelVars,
                 sentence_model, tr_user, tr_len, tr_k, tr_id, tr_model, tr_result,
                 store_before, raced, trains, loaded, loads>>

\* joblib.dump writes the next piece of the pickle; after the last one the
\* file is closed and, line 395, train returns the model
DumpWrite(t) ==
  /\ tr_pc[t] = "write"
  /\ store' = [store EXCEPT ![KmeansPath(tr_user[t])] =
                 [exists |-> TRUE, data |-> WriteAt(@.data, tr_offset[t], tr_model[t].id)]]
  /\ tr_offset' = [tr_offset EXCEPT ![t] = @ + 1]
  /\ IF tr_offset[t] + 1 = BlobChunks
     THEN /\ tr_pc' = [tr_pc EXCEPT ![t] = "returned"]
          /\ tr_result' = [tr_result EXCEPT ![t] = tr_model[t]]
     ELSE UNCHANGED <<tr_pc, tr_result>>
  /\ UNCHANGED <<clientVars, parseVars, journalVars, lifeVars, anomalyVars, labelVars,
                 sentence_model, tr_user, tr_len, tr_k, tr_id, tr_model,
                 store_before, raced, trains, loaded, loads>>

\* the caller of train has its answer; the thread is free again
TrainDone(t) ==
  /\ tr_pc[t] = "returned"
  /\ tr_pc' = [tr_pc EXCEPT ![t] = "idle"]
  /\ tr_user' = [tr_user EXCEPT ![t] = 1]
  /\ tr_len' = [tr_len EXCEPT ![t] = 0]
  /\ tr_k' = [tr_k EXCEPT ![t] = [kind |-> "int", val |-> 0]]
  /\ tr_id' = [tr_id EXCEPT ![t] = 0]
  /\ tr_model' = [tr_model EXCEPT ![t] = NoModel]
  /\ tr_offset' = [tr_offset EXCEPT ![t] = 0]
  /\ tr_result' = [tr_result EXCEPT ![t] = NoModel]
  /\ store_before' = [store_before EXCEPT ![t] = [u \in Users |-> NoFile]]
  /\ raced' = [raced EXCEPT ![t] = FALSE]
  /\ UNCHANGED <<clientVars, parseVars, journalVars, lifeVars, anomalyVars, labelVars,
                 sentence_model, store, trains, loaded, loads>>

\* load_clustering_model(user_id): os.path.exists, then joblib.load reads
\* what the file holds
Load(t, user_id) ==
  /\ tr_pc[t] = "idle"
  /\ loads < MaxLoads
  /\ loads' = loads + 1
  /\ loaded' = [loaded EXCEPT ![t] =
                  [user |-> user_id, file |-> store[KmeansPath(user_id)],
                   during |-> Cardinality({o \in Threads : Training(o)
                                                          /\ tr_user[o] = user_id})]]
  /\ UNCHANGED <<clientVars, parseVars, journalVars, lifeVars, anomalyVars, labelVars,
                 sentence_model, store, tr_pc, tr_user, tr_len, tr_k, tr_id, tr_model, tr_offset,
                 tr_result, store_before, raced, trains>>

\* no clustering request is being served
TrainIdle ==
  /\ sentence_model = "loaded"
  /\ store = [u \in Users |-> NoFile]
  /\ tr_pc = [t \in Threads |-> "idle"]
  /\ tr_user = [t \in Threads |-> 1]
  /\ tr_len = [t \in Threads |-> 0]
  /\ tr_k = [t \in Threads |-> [kind |-> "int", val |-> 0]]
  /\ tr_id = [t \in Threads |-> 0]
  /\ tr_model = [t \in Threads |-> NoModel]
  /\ tr_offset = [t \in Threads |-> 0]
  /\ tr_result = [t \in Threads |-> NoModel]
  /\ store_before = [t \in Threads |-> [u \in Users |-> NoFile]]
  /\ raced = [t \in Threads |-> FALSE]
  /\ trains = 0
  /\ loaded = [t \in Threads |-> [user |-> 1, file |-> NoFile, during |-> 0]]
  /\ loads = 0

\* get_cluster_keywords_semantic(kmeans_model, journal_texts): the model
\* it is given carries labels_, the cluster id of every training text
NoKMeans == [n_clusters |-> 0, labels_ |-> <<>>]
KMeansModels ==
  {NoKMeans} \cup
  UNION {[n_clusters : {k}, labels_ : [1..n -> 0..(k - 1)]] :
           k \in 2..MaxTexts, n \in 2..MaxTexts}

\* what the keyword extraction of one group meets
Extractions == {"word_count", "fit_raises", "pos_tag_raises", "keywords"}

\* clusters_data: the cluster ids that hold a text, line 420-425
ClustersData(model, len) == {model.labels_[i] : i \in 1..Min(len, Len(model.labels_))}

\* the try of line 440 and the except Exception of line 483 enclose the
\* extraction of one group
CaughtInGroup_fit_only(met) == met = "fit_raises"
CaughtInGroup(met) == met \in {"fit_raises", "pos_tag_raises"}

ExtractionRaises(met) == met \in {"fit_raises", "pos_tag_raises"}

\* the value stored under f"Theme {cluster_id+1}" for one group
ThemeOf(met) ==
  CASE met = "word_count" -> "words or General Theme"
    [] met = "keywords" -> "keywords or General Theme"
    [] ExtractionRaises(met) -> "Error Theme"

ThemeKeys == 1..MaxTexts
NoThemes == [raised |-> FALSE, themes |-> [key \in ThemeKeys |-> "absent"]]

\* lines 414-487
ClusterKeywords(model, len, met) ==
  IF model = NoKMeans \/ len = 0 THEN NoThemes
  ELSE IF \E cluster_id \in ClustersData(model, len) :
            ExtractionRaises(met[cluster_id]) /\ ~CaughtInGroup(met[cluster_id])
       THEN [raised |-> TRUE, themes |-> NoThemes.themes]
  ELSE [raised |-> FALSE,
        themes |-> [key \in ThemeKeys |->
                      IF key - 1 \in ClustersData(model, len)
                      THEN ThemeOf(met[key - 1]) ELSE "absent"]]

GetClusterKeywordsSemantic ==
  /\ label_pc = "called"
  /\ cluster_themes' = ClusterKeywords(kmeans_model, label_len, extraction)
  /\ label_pc' = "returned"
  /\ UNCHANGED <<clientVars, parseVars, journalVars, lifeVars, anomalyVars, trainVars,
                 kmeans_model, extraction, label_len>>

\* no labelling call is being served
LabelIdle ==
  /\ kmeans_model = NoKMeans
  /\ extraction = [cluster_id \in 0..(MaxTexts - 1) |-> "keywords"]
  /\ cluster_themes = NoThemes
  /\ label_len = 0
  /\ label_pc = "idle"

\* ------------------------------------------- the anomaly detector -------
\* detect_anomalies exists twice: journal/routes.py computes statistics
\* that are exponentially weighted ("ewma"), app.py statistics over the
\* last seven days ("window").
Variants == {"ewma", "window"}
ewma_span == 7
window_size == 7

\* A float is held in fixed point: Unit steps make 1.0, and every product
\* and quotient is rounded to the nearest step. averageMood is counted in
\* tenths and totalWords in hundreds of words: the detector decides on
\* ratios of deviations, which a change of unit leaves as they are.
Unit == 1024
Mul(a, b) == (a * b + Unit \div 2) \div Unit
Div(a, b) == (a * Unit + b \div 2) \div b

\* what a day's dict holds for a metric: a number, a string that is no
\* number, or nothing. No number of the detector is negative.
NaN == -1
Missing == -2
NonNumeric == -3
MoodValues == {5, 9}
WordsValues == {1, 3}
Metrics == {"averageMood", "totalWords"}

\* pd.to_numeric(..., errors='coerce')
ToNumeric(x) == IF x >= 0 THEN x ELSE NaN

\* pd.DataFrame(daily_data_list): a key that no day has is no column, and a
\* day without the key has NaN in the column
HasColumn(days, key) == \E i \in 1..Len(days) : days[i][key] # Missing
Cell(v, x) == IF x = Missing THEN NaN ELSE IF v = "ewma" THEN ToNumeric(x) ELSE x

\* df.sort_values(by='date')
SortByDate(days) ==
  [i \in 1..Len(days) |->
     CHOOSE d \in {days[j] : j \in 1..Len(days)} :
       Cardinality({j \in 1..Len(days) : days[j].date < d.date}) = i - 1]

Column_totalWords(v, df, key) == [i \in 1..Len(df) |-> Cell(v, df[i].totalWords)]
Column(v, df, key) == [i \in 1..Len(df) |-> Cell(v, df[i][key])]

\* Series.ewm(span=ewma_span, adjust=False, min_periods=1): the state that
\* pandas carries from one day to the next
alpha == (2 * Unit) \div (ewma_span + 1)
EwmStart ==
  [mean |-> NaN, cov |-> 0, sum_wt |-> Unit, sum_wt2 |-> Unit, old_wt |-> Unit, nobs |-> 0]

EwmStep(s, cur) ==
  LET is_observation == cur # NaN
      old_wt_factor == Unit - alpha
  IN  IF s.mean # NaN
      THEN LET sum_wt == Mul(s.sum_wt, old_wt_factor)
               sum_wt2 == Mul(s.sum_wt2, Mul(old_wt_factor, old_wt_factor))
               old_wt == Mul(s.old_wt, old_wt_factor)
           IN  IF is_observation
               THEN LET x == cur * Unit
                        mean == IF s.mean # x
                                THEN Div(Mul(old_wt, s.mean) + Mul(alpha, x), old_wt + alpha)
                                ELSE s.mean
                        moved == Abs(s.mean - mean)
                        off == Abs(x - mean)
                        cov == Div(Mul(old_wt, s.cov + Mul(moved, moved))
                                     + Mul(alpha, Mul(off, off)),
                                   old_wt + alpha)
                        wt == old_wt + alpha
                    IN  [mean |-> mean, cov |-> cov,
                         sum_wt |-> Div(sum_wt + alpha, wt),
                         sum_wt2 |-> Div(sum_wt2 + Mul(alpha, alpha), Mul(wt, wt)),
                         old_wt |-> Unit, nobs |-> s.nobs + 1]
               ELSE [s EXCEPT !.sum_wt = sum_wt, !.sum_wt2 = sum_wt2, !.old_wt = old_wt]
      ELSE IF is_observation
           THEN [s EXCEPT !.mean = cur * Unit, !.nobs = s.nobs + 1]
           ELSE s

\* .mean() and .std() of the day: std is held as its square, var, which is
\* NaN where std is and positive where std is
EwmStat(s) ==
  LET numerator == Mul(s.sum_wt, s.sum_wt)
      denominator == numerator - s.sum_wt2
  IN  [mean |-> IF s.nobs >= 1 THEN s.mean ELSE NaN,
       var |-> IF s.nobs >= 1 /\ denominator > 0
               THEN Mul(Div(numerator, denominator), s.cov)
               ELSE NaN]

RECURSIVE EwmFrom(_, _, _)
EwmFrom(series, i, s) ==
  IF i > Len(series) THEN <<>>
  ELSE LET t == EwmStep(s, series[i])
       IN  <<EwmStat(t)>> \o EwmFrom(series, i + 1, t)

Ewm(series) == EwmFrom(series, 1, EwmStart)

\* Series.rolling(window=window_size, min_periods=1): mean and sample
\* deviation over the numbers of the last window_size days
Rolling(series) ==
  [i \in 1..Len(series) |->
     LET window == {j \in 1..i : j > i - window_size /\ series[j] # NaN}
         n == Cardinality(window)
         total == SumOver(series, window)
         squares == SumOver([j \in 1..Len(series) |-> series[j] * series[j]], window)
     IN  [mean |-> IF n >= 1 THEN (total * Unit + n \div 2) \div n ELSE NaN,
          var |-> IF n >= 2
                  THEN ((n * squares - total * total) * Unit + (n * (n - 1)) \div 2)
                         \div (n * (n - 1))
                  ELSE NaN]]

Stats(v, series) == IF v = "ewma" THEN Ewm(series) ELSE Rolling(series)

\* the data frame the days are scanned in, with its four columns of
\* statistics
Frame(v, days) ==
  LET df == SortByDate(days)
      mood == Stats(v, Column(v, df, "averageMood"))
      words == Stats(v, Column(v, df, "totalWords"))
  IN  [i \in 1..Len(df) |->
         [date |-> df[i].date,
          averageMood |-> Cell(v, df[i].averageMood),
          totalWords |-> Cell(v, df[i].totalWords),
          mood |-> mood[i], words |-> words[i]]]

\* the thresholds, in deviations: 0.8 and 1. of routes.py, 1.0 and 1.5 of app.py
mood_threshold_std_two(v) == [num |-> 2, den |-> 1]
mood_threshold_std(v) ==
  IF v = "ewma" THEN [num |-> 4, den |-> 5] ELSE [num |-> 1, den |-> 1]
words_threshold_std(v) ==
  IF v = "ewma" THEN [num |-> 1, den |-> 1] ELSE [num |-> 3, den |-> 2]

\* start_idx, counted from 1; app.py scans every day
StartIdx(v, len) == IF v = "ewma" /\ len >= ewma_span THEN ewma_span ELSE 1

\* the day is skipped: one of its six values is NaN
Skips(current_day) ==
  \/ current_day.averageMood = NaN \/ current_day.totalWords = NaN
  \/ current_day.mood.mean = NaN \/ current_day.mood.var = NaN
  \/ current_day.words.mean = NaN \/ current_day.words.var = NaN

\* abs(z_score) > threshold where std > 0, z_score being (value - mean) / std:
\* both sides are squared. Where std is zero routes.py flags a value that
\* is not the mean, and app.py flags nothing.
IsAnomaly_zero_std(v, value, stat, threshold) ==
  IF stat.var > 0
  THEN LET off == Abs(value * Unit - stat.mean)
       IN  threshold.den * threshold.den * Mul(off, off)
             > threshold.num * threshold.num * stat.var
  ELSE v = "ewma"
IsAnomaly(v, value, stat, threshold) ==
  IF stat.var > 0
  THEN LET off == Abs(value * Unit - stat.mean)
       IN  threshold.den * threshold.den * Mul(off, off)
             > threshold.num * threshold.num * stat.var
  ELSE v = "ewma" /\ value * Unit # stat.mean

\* anomaly_details["type"] of a day that is not skipped
TypesOf(v, current_day) ==
  (IF IsAnomaly(v, current_day.averageMood, current_day.mood, mood_threshold_std(v))
   THEN {"mood"} ELSE {})
  \cup
  (IF IsAnomaly(v, current_day.totalWords, current_day.words, words_threshold_std(v))
   THEN {"words"} ELSE {})

RECURSIVE Scan(_, _, _)
Scan(v, df, i) ==
  IF i > Len(df) THEN <<>>
  ELSE (IF ~Skips(df[i]) /\ TypesOf(v, df[i]) # {}
        THEN <<[date |-> df[i].date, type |-> TypesOf(v, df[i])]>>
        ELSE <<>>)
       \o Scan(v, df, i + 1)

NoData == "No data provided for anomaly detection."
NotEnough == "Not enough data for anomaly detection (need at least 7 days)."
\* N is len(anomalies)
Detected == "Detected N unusual journaling patterns."
NoneSignificant == "No significant anomalies detected in your recent journaling patterns."

AnomalyReturn(anomalies, message) ==
  [raised |-> "none", anomalies |-> anomalies, message |-> message]
AnomalyRaise(exc) == [raised |-> exc, anomalies |-> <<>>, message |-> ""]
NoAnomalyResult == AnomalyRaise("pending")

\* What the call answers before it scans the frame, NoAnomalyResult if it
\* goes on to scan: df['averageMood'] of a frame without the column is a
\* KeyError, and pandas refuses the rolling mean of a column that holds a
\* string.
BeforeScan(v, days) ==
  IF v = "ewma" /\ days = <<>> THEN AnomalyReturn(<<>>, NoData)
  ELSE IF v = "window" /\ Len(days) < window_size THEN AnomalyReturn(<<>>, NotEnough)
  ELSE IF \E key \in Metrics : ~HasColumn(days, key) THEN AnomalyRaise("KeyError")
  ELSE IF v = "window" /\ \E i \in 1..Len(days), key \in Metrics : days[i][key] = NonNumeric
       THEN AnomalyRaise("DataError")
  ELSE NoAnomalyResult

DetectAnomalies(v, days) ==
  IF BeforeScan(v, days) # NoAnomalyResult THEN BeforeScan(v, days)
  ELSE LET df == Frame(v, days)
           anomalies == Scan(v, df, StartIdx(v, Len(df)))
       IN  AnomalyReturn(anomalies, IF anomalies # <<>> THEN Detected ELSE NoneSignificant)

CallDetectAnomalies ==
  /\ anomaly_pc = "called"
  /\ anomaly_result' = DetectAnomalies(variant, daily_data_list)
  /\ anomaly_pc' = "returned"
  /\ UNCHANGED <<clientVars, parseVars, journalVars, lifeVars, clusterVars,
                 variant, daily_data_list>>

AnomalyIdle ==
  /\ variant = "ewma"
  /\ daily_data_list = <<>>
  /\ anomaly_result = NoAnomalyResult
  /\ anomaly_pc = "idle"

\* the lists the detector is given: days of consecutive dates, in
\* ascending or descending order, that hold averageMood 0.5 and totalWords
\* 100 except on at most OddPerList days, which hold one of the other pairs
BaseDay == [averageMood |-> 5, totalWords |-> 1]
OddDays ==
  ([averageMood : MoodValues \cup {Missing}, totalWords : WordsValues \cup {Missing}]
     \cup {[averageMood |-> NonNumeric, totalWords |-> BaseDay.totalWords]})
  \ {BaseDay}
DayOf(i, metrics) ==
  [date |-> i, averageMood |-> metrics.averageMood, totalWords |-> metrics.totalWords]
Ascending ==
  UNION {UNION {{[i \in 1..n |-> DayOf(i, IF i \in odd THEN pick[i] ELSE BaseDay)] :
                   pick \in [odd -> OddDays]} :
                odd \in {o \in SUBSET (1..n) : Cardinality(o) <= OddPerList}} :
         n \in 0..MaxDays}
Reversed(days) == [i \in 1..Len(days) |-> days[Len(days) + 1 - i]]
DailyDataLists == Ascending \cup {Reversed(days) : days \in Ascending}

\* ------------------------------------------------ the specifications ----
\* gemini_api_client = GeminiApiClient() at import: __init__ at time 0
ClientInit ==
  /\ now = 0
  /\ lock = NoOwner
  /\ requests_timestamps = <<>>
  /\ current_tokens_in_window = 0
  /\ tpm_last_reset_time = 0
  /\ pc = [t \in Threads |-> "idle"]
  /\ prompt_len = [t \in Threads |-> 0]
  /\ response_schema = [t \in Threads |-> FALSE]
  /\ attempt_number = [t \in Threads |-> 0]
  /\ wake_at = [t \in Threads |-> 0]
  /\ result = [t \in Threads |-> "none"]
  /\ escaped = [t \in Threads |-> "none"]
  /\ last_outcome = [t \in Threads |-> "none"]
  /\ last_blocked = [t \in Threads |-> "none"]
  /\ last_content = [t \in Threads |-> "none"]
  /\ acquires = [t \in Threads |-> 0]
  /\ posts = [t \in Threads |-> 0]
  /\ stamps = [t \in Threads |-> 0]
  /\ tokens_added = [t \in Threads |-> 0]
  /\ tpm_waits = [t \in Threads |-> 0]
  /\ only_transport_errors = [t \in Threads |-> TRUE]
  /\ admissions = <<>>
  /\ last_admit = [thread |-> NoOwner, tokens_to_add |-> 0, counter |-> 0, waits |-> 0]
  /\ post_log = {}
  /\ entry = [t \in Threads |-> "none"]
  /\ calls = 0

\* no reply text is handed to the parsing on its own
ParseIdle ==
  /\ response_text = <<>>
  /\ expects_json = FALSE
  /\ parsed = NoParse

\* no journal text is being analysed
JournalIdle ==
  /\ journal_text = 0
  /\ full_analysis = NoFields("null")
  /\ analysis = NoAnalysis
  /\ moodScore = [num |-> 0, den |-> 1]
  /\ journal_pc = "idle"

\* gemini_api_client was imported: its line 190 constructed the one instance
ConstructedOnce ==
  /\ cls_instance = 1
  /\ has_initialized = TRUE
  /\ ctor_pc = [t \in Threads |-> "idle"]
  /\ constructed = [t \in Threads |-> 0]
  /\ import_lock = NoOwner
  /\ imported = TRUE
  /\ creations = 1
  /\ inits = 1
  /\ resets = 0
  /\ constructions = 0

\* the parts of the service that a call of the client leaves alone
RestIdle == ConstructedOnce /\ TrainIdle /\ LabelIdle /\ AnomalyIdle

Init == ClientInit /\ ParseIdle /\ JournalIdle /\ RestIdle

\* Spec follows one invoke of the client, by any of the threads, through all
\* its attempts, with every reply the remote can give to each of them.
Next ==
  \/ \E t \in Threads, len \in PromptLens, schema \in BOOLEAN :
       calls = 0 /\ CallGeminiApi(t, len, schema)
  \/ \E t \in Threads : WaitForRateLimit(t)
  \/ \E t \in Threads : RpmWake(t)
  \/ \E t \in Threads : TpmWake(t)
  \/ \E t \in Threads, reply \in Replies : Post(t, reply)
  \/ \E t \in Threads : Retry(t)
  \/ \E d \in TickSteps : Tick(d)
  \/ SleepElapse

Spec == Init /\ [][Next]_vars

\* The threads are scheduled and sleeps end: every step of a thread that
\* stays possible is taken, and time reaches the end of every sleep.
FairSpec ==
  /\ Spec
  /\ \A t \in Threads : /\ WF_vars(WaitForRateLimit(t))
                        /\ WF_vars(RpmWake(t))
                        /\ WF_vars(TpmWake(t))
                        /\ WF_vars(\E reply \in Replies : Post(t, reply))
                        /\ WF_vars(Retry(t))
  /\ WF_vars(SleepElapse)

\* GateSpec follows the gate under contention: every thread calls the client
\* again and again, MaxCalls times in all, and the remote answers each call
\* at once, so that every invoke is one pass through the gate.
AnsweredReplies == {r \in Replies : r.transport = "ok" /\ r.status = 200
                                     /\ r.body.kind = "envelope" /\ r.body.candidates = "ok"
                                     /\ ~r.body.blockReason /\ r.body.text = <<Word>>}

GateNext ==
  \/ \E t \in Threads, len \in PromptLens :
       calls < MaxCalls /\ CallGeminiApi(t, len, FALSE)
  \/ \E t \in Threads : WaitForRateLimit(t)
  \/ \E t \in Threads : RpmWake(t)
  \/ \E t \in Threads : TpmWake(t)
  \/ \E t \in Threads, reply \in AnsweredReplies : Post(t, reply)
  \/ \E t \in Threads : Return(t)
  \/ \E d \in TickSteps : Tick(d)
  \/ SleepElapse

GateSpec == Init /\ [][GateNext]_vars

\* RouteSpec follows the request handlers of the route layer: every thread
\* serves requests of the three paths, one after the other.
RouteNext ==
  \/ \E t \in Threads, path \in Paths, reply \in Replies : RouteRequest(t, path, reply)
  \/ \E t \in Threads : Return(t)
  \/ \E d \in TickSteps : Tick(d)

RouteSpec == Init /\ [][RouteNext]_vars

\* LifeSpec follows the client from before the import of its module: one
\* thread imports it, then the threads call the client, with prompts of one
\* token and as long as the request window has room, so that no gate call
\* sleeps, and construct GeminiApiClient() again, in any order.
LifeInit ==
  /\ ClientInit /\ ParseIdle /\ JournalIdle /\ TrainIdle /\ LabelIdle /\ AnomalyIdle
  /\ cls_instance = 0
  /\ has_initialized = FALSE
  /\ ctor_pc = [t \in Threads |-> "idle"]
  /\ constructed = [t \in Threads |-> 0]
  /\ import_lock = NoOwner
  /\ imported = FALSE
  /\ creations = 0
  /\ inits = 0
  /\ resets = 0
  /\ constructions = 0

LifeNext ==
  \/ \E t \in Threads : ImportModule(t)
  \/ \E t \in Threads : Construct(t)
  \/ \E t \in Threads : New(t)
  \/ \E t \in Threads : NewLocked(t)
  \/ \E t \in Threads : InitCheck(t)
  \/ \E t \in Threads : InitState(t)
  \/ \E t \in Threads : InitFlag(t)
  \/ \E t \in Threads : Constructed(t)
  \/ \E t \in Threads :
       /\ imported /\ ctor_pc[t] = "idle" /\ calls < max_requests_per_minute
       /\ CallGeminiApi(t, CharsPerToken, FALSE)
  \/ \E t \in Threads : WaitForRateLimit(t)
  \/ \E t \in Threads, reply \in AnsweredReplies : Post(t, reply)
  \/ \E t \in Threads : Return(t)
  \/ \E d \in TickSteps : Tick(d)

LifeSpec == LifeInit /\ [][LifeNext]_vars

\* TrainSpec follows the clustering requests of the threads when they are
\* served one after the other, with the embedding model loaded or not.
TrainInit ==
  /\ ClientInit /\ ParseIdle /\ JournalIdle /\ ConstructedOnce /\ LabelIdle /\ AnomalyIdle
  /\ sentence_model \in {"loaded", "None"}
  /\ store = [u \in Users |-> NoFile]
  /\ tr_pc = [t \in Threads |-> "idle"]
  /\ tr_user = [t \in Threads |-> 1]
  /\ tr_len = [t \in Threads |-> 0]
  /\ tr_k = [t \in Threads |-> [kind |-> "int", val |-> 0]]
  /\ tr_id = [t \in Threads |-> 0]
  /\ tr_model = [t \in Threads |-> NoModel]
  /\ tr_offset = [t \in Threads |-> 0]
  /\ tr_result = [t \in Threads |-> NoModel]
  /\ store_before = [t \in Threads |-> [u \in Users |-> NoFile]]
  /\ raced = [t \in Threads |-> FALSE]
  /\ trains = 0
  /\ loaded = [t \in Threads |-> [user |-> 1, file |-> NoFile, during |-> 0]]
  /\ loads = 0

AllIdle == \A t \in Threads : tr_pc[t] = "idle"

TrainNext ==
  \/ \E t \in Threads, user_id \in Users, len \in 0..MaxTexts, n_clusters \in RequestedKs :
       AllIdle /\ Train(t, user_id, len, n_clusters)
  \/ \E t \in Threads : FitModel(t)
  \/ \E t \in Threads : DumpOpen(t)
  \/ \E t \in Threads : DumpWrite(t)
  \/ \E t \in Threads : TrainDone(t)

TrainSpec == TrainInit /\ [][TrainNext]_vars

\* ClusterSpec follows clustering requests that the threads serve at the
\* same time: trains of two or of one text, and loads.
ClusterNext ==
  \/ \E t \in Threads, user_id \in Users, len \in {1, 2} :
       Train(t, user_id, len, [kind |-> "int", val |-> 2])
  \/ \E t \in Threads : FitModel(t)
  \/ \E t \in Threads : DumpOpen(t)
  \/ \E t \in Threads : DumpWrite(t)
  \/ \E t \in Threads : TrainDone(t)
  \/ \E t \in Threads, user_id \in Users : Load(t, user_id)

ClusterSpec == Init /\ [][ClusterNext]_vars

\* LabelSpec follows one call of get_cluster_keywords_semantic, for every
\* model of at most MaxTexts texts and whatever the extraction meets.
LabelInit ==
  /\ ClientInit /\ ParseIdle /\ JournalIdle /\ ConstructedOnce /\ TrainIdle /\ AnomalyIdle
  /\ kmeans_model \in KMeansModels
  /\ extraction \in [0..(MaxTexts - 1) -> Extractions]
  /\ cluster_themes = NoThemes
  /\ label_len \in {0, Len(kmeans_model.labels_)}
  /\ label_pc = "called"

LabelNext == GetClusterKeywordsSemantic

LabelSpec == LabelInit /\ [][LabelNext]_vars

\* ParseSpec follows the parsing of one reply text, for every text of at
\* most MaxTextLen pieces and both kinds of result the caller may expect.
ParseInit ==
  /\ ClientInit
  /\ response_text \in AllTexts
  /\ expects_json \in BOOLEAN
  /\ parsed = NoParse
  /\ JournalIdle
  /\ RestIdle

ParseNext == ParseReply

ParseSpec == ParseInit /\ [][ParseNext]_vars

\* JournalSpec follows one analysis of a journal text from the moment the
\* call to the generative text service has returned, for every value the
\* call may return.
JournalInit ==
  /\ ClientInit
  /\ ParseIdle
  /\ journal_text \in JournalTexts
  /\ full_analysis \in FullAnalyses
  /\ analysis = NoAnalysis
  /\ moodScore = [num |-> 0, den |-> 1]
  /\ journal_pc = "called"
  /\ RestIdle

JournalNext == GetGeminiJournalAnalysis \/ AnalyzeJournal

JournalSpec == JournalInit /\ [][JournalNext]_vars

\* AnomalySpec follows one call of detect_anomalies, of either revision,
\* for every list of DailyDataLists.
AnomalyInit ==
  /\ ClientInit /\ ParseIdle /\ JournalIdle /\ ConstructedOnce /\ TrainIdle /\ LabelIdle
  /\ variant \in Variants
  /\ daily_data_list \in DailyDataLists
  /\ anomaly_result = NoAnomalyResult
  /\ anomaly_pc = "called"

AnomalyNext == CallDetectAnomalies

AnomalySpec == AnomalyInit /\ [][AnomalyNext]_vars

\* ------------------------------------------------------- the claims -----
InGate(t) == pc[t] \in {"rpm_sleep", "tpm_sleep"}
IsClient(t) == entry[t] = "client"

\* C1: whenever no thread is inside the gate's critical section, the number
\* of request timestamps retained is at most the requests-per-minute limit.
C1_RetainedWithinLimit ==
  lock = NoOwner => Len(requests_timestamps) <= max_requests_per_minute

\* C1 witness: more calls than the limit were admitted, one had to wait for
\* room, and the deque is full again.
C1_Witness ==
  /\ lock = NoOwner
  /\ Len(admissions) = max_requests_per_minute + 1
  /\ Len(requests_timestamps) = max_requests_per_minute
  /\ Head(requests_timestamps) > 0

\* C2: whenever a gate call returns, for every non-negative tokens_to_add,
\* the token counter is at most the tokens-per-minute limit.
C2_CounterWithinLimitOnReturn ==
  last_admit.thread # NoOwner => last_admit.counter <= max_tokens_per_minute

\* C3: the (k + limit)-th admission is at least one request window after the
\* k-th one, also when calls waited on the token quota.
C3_LimitAdmissionsPerWindow ==
  Len(admissions) = max_requests_per_minute + 1 =>
    admissions[max_requests_per_minute + 1] - admissions[1] >= rpm_window

\* C4: no thread sleeps in the gate while it owns the gate lock.
C4_SleepsWithoutLock ==
  \A t \in Threads : InGate(t) => lock # t

\* C5: a call whose token estimate alone exceeds the tokens-per-minute limit
\* is never admitted by the gate.
C5_OversizedNeverAdmitted ==
  \A t \in Threads :
    estimated_tokens(prompt_len[t]) > max_tokens_per_minute => acquires[t] = 0

\* C6: every POST to the generative text service, from whatever path, is
\* preceded in the same call by an acquire of the gate.
C6_EveryPostThroughGate ==
  \A p \in post_log : p.gated

\* C7: an invoke makes at most 5 attempts, every attempt is preceded by
\* exactly one gate acquire, and an invoke whose every attempt met a
\* transport error ends with null after exactly 5 attempts and 5 acquires.
C7_FiveAttemptsFiveAcquires ==
  \A t \in Threads : IsClient(t) =>
    /\ attempt_number[t] <= MaxAttempts
    /\ pc[t] \in {"attempt", "rpm_sleep", "tpm_sleep"} =>
         acquires[t] = attempt_number[t] - 1 /\ posts[t] = attempt_number[t] - 1
    /\ pc[t] = "post" =>
         acquires[t] = attempt_number[t] /\ posts[t] = attempt_number[t] - 1
    /\ pc[t] \in {"backoff", "done"} =>
         acquires[t] = attempt_number[t] /\ posts[t] = attempt_number[t]
    /\ pc[t] = "done" /\ only_transport_errors[t] =>
         result[t] = "null" /\ posts[t] = MaxAttempts /\ acquires[t] = MaxAttempts

\* C7 witness: an invoke is over, and each of its attempts met a transport error
C7_Witness ==
  \E t \in Threads : /\ IsClient(t) /\ pc[t] = "done" /\ only_transport_errors[t]
                     /\ posts[t] = MaxAttempts /\ result[t] = "null"

\* C8: an attempt that receives a 4xx status other than 429 is not retried:
\* the invoke ends there with null.
C8_NoRetryOnClientError ==
  \A t \in Threads :
    IsClient(t) /\ last_outcome[t] = "http4xx" => pc[t] = "done" /\ result[t] = "null"

\* C9: whatever the attempts meet, call_gemini_api terminates with a parsed
\* value or null, and no exception reaches its caller.
C9_NoExceptionReachesCaller ==
  /\ [](\A t \in Threads : IsClient(t) =>
          /\ escaped[t] = "none"
          /\ pc[t] = "done" => result[t] \in {"null", "json_direct", "json_fenced", "text"})
  /\ \A t \in Threads : IsClient(t) ~> (pc[t] = "done" /\ escaped[t] = "none")

\* C9 witness: an invoke ended on a reply whose body is not an object, which
\* raises an exception that no named except clause lists
C9_Witness ==
  \E t \in Threads : /\ IsClient(t) /\ pc[t] = "done" /\ last_outcome[t] = "not_object"
                     /\ result[t] = "null"

\* C10: every attempt consumes gate budget: once n attempts were made, n
\* timestamps were recorded and the token estimate was added n times; what
\* follows the gate call in an attempt, failure and backoff included, gives
\* nothing back: it leaves the timestamps and the token counter as they are.
C10_EveryAttemptConsumesBudget ==
  /\ [](\A t \in Threads : IsClient(t) /\ pc[t] \in {"backoff", "done"} =>
          /\ stamps[t] = posts[t]
          /\ tokens_added[t] = posts[t] * estimated_tokens(prompt_len[t]))
  /\ [][\A t \in Threads : pc[t] \in {"post", "backoff"} /\ pc'[t] # pc[t] =>
          /\ requests_timestamps' = requests_timestamps
          /\ current_tokens_in_window' = current_tokens_in_window]_vars

\* C10 witness: an invoke failed on every one of its attempts, with a
\* positive token estimate
C10_Witness ==
  \E t \in Threads : /\ IsClient(t) /\ pc[t] = "done" /\ posts[t] = MaxAttempts
                     /\ last_outcome[t] \in {"transport", "http5xx", "http429"}
                     /\ estimated_tokens(prompt_len[t]) > 0
                     /\ tokens_added[t] = MaxAttempts * estimated_tokens(prompt_len[t])

FenceIndexes(text) == {i \in 1..Len(text) : text[i] = Fence}
FenceRank(text, i) == Cardinality({j \in FenceIndexes(text) : j <= i})
BlockBody(text, i, k) ==
  IF i + 1 < k /\ text[i + 1] = Tag THEN SubSeq(text, i + 2, k - 1)
  ELSE SubSeq(text, i + 1, k - 1)
FencedBlocks(text) ==
  {BlockBody(text, p[1], p[2]) :
     p \in {q \in FenceIndexes(text) \X FenceIndexes(text) :
              /\ FenceRank(text, q[1]) % 2 = 1
              /\ FenceRank(text, q[2]) = FenceRank(text, q[1]) + 1}}
BetweenFences(text) ==
  {BlockBody(text, p[1], p[2]) :
     p \in {q \in FenceIndexes(text) \X FenceIndexes(text) : q[1] < q[2]}}
Decodes(s) == JsonLoads(s) # "JSONDecodeError"

\* C12: with a structured result expected the parsing returns the direct
\* decoding of the text if that succeeds, else the decoding of the JSON in a
\* fenced block if one exists and decodes, else null; with a freeform result
\* expected it returns the text unchanged.
C12_DirectThenFencedElseNull ==
  parsed # NoParse =>
    IF ~expects_json THEN parsed = TextValue(response_text)
    ELSE IF Decodes(response_text)
         THEN parsed = JsonValue("json_direct", JsonLoads(response_text))
    ELSE /\ parsed.kind \in {"json_fenced", "null"}
         /\ (\E b \in FencedBlocks(response_text) : Decodes(b)) => parsed.kind = "json_fenced"
         /\ parsed.kind = "json_fenced" =>
              \E b \in BetweenFences(response_text) : Decodes(b) /\ parsed.json = JsonLoads(b)

\* the delay the claim gives to the n-th wait: 2 time units, doubled at
\* every further wait, at most 10
RECURSIVE DoublingDelay(_)
DoublingDelay(n) ==
  IF n = 1 THEN WaitMin
  ELSE IF 2 * DoublingDelay(n - 1) < WaitMax THEN 2 * DoublingDelay(n - 1) ELSE WaitMax

\* the wait a thread begins in this step, between two attempts
BeginsWait(t) == pc[t] = "post" /\ pc'[t] = "backoff"

\* C13: the delay before the first retry is 2 time units and each later
\* delay is double the previous one, capped at 10; every delay lies in [2, 10].
C13_DelayDoublesFromTwo ==
  [][\A t \in Threads : BeginsWait(t) =>
        /\ wake_at'[t] - now = DoublingDelay(attempt_number[t])
        /\ wake_at'[t] - now >= WaitMin /\ wake_at'[t] - now <= WaitMax]_vars

\* the delays of the code: the first two waits take 2 time units, each
\* later one double the previous one, at most 10
RECURSIVE FlooredDelay(_)
FlooredDelay(n) ==
  IF n <= 2 THEN WaitMin
  ELSE IF 2 * FlooredDelay(n - 1) < WaitMax THEN 2 * FlooredDelay(n - 1) ELSE WaitMax

\* C13 as amended: the delays before the first and before the second retry
\* are 2 time units, each later delay is double the previous one, capped at
\* 10; every delay lies in [2, 10].
C13_DelayDoublesAfterSecond ==
  [][\A t \in Threads : BeginsWait(t) =>
        /\ wake_at'[t] - now = FlooredDelay(attempt_number[t])
        /\ wake_at'[t] - now >= WaitMin /\ wake_at'[t] - now <= WaitMax]_vars

\* C13 witness: the wait before the fifth attempt has just begun: 8 time units
C13_Witness ==
  \E t \in Threads : /\ IsClient(t) /\ pc[t] = "backoff"
                     /\ attempt_number[t] = MaxAttempts - 1
                     /\ wake_at[t] - now = 4 * WaitMin

\* C14: for every journal text and every outcome of the remote call, the
\* journal analysis issues its single structured request and returns a
\* record without raising an exception.
C14_JournalAnalysisNeverRaises ==
  \A t \in Threads :
    entry[t] = "journal" /\ pc[t] = "done" => escaped[t] = "none" /\ posts[t] = 1

\* the analysis has returned a record
Assembled == journal_pc \in {"assembled", "responded"}
\* the remote value is an object whose "emotions" is a mapping
HasMapping == full_analysis.top = "object" /\ full_analysis.emotions.shape = "mapping"

\* the text itself if it has at most 150 characters, otherwise its first
\* 150 characters followed by "..."
IsTruncatedText(s) ==
  /\ s.source = "journal_text"
  /\ IF journal_text <= SummaryChars
     THEN s.chars = journal_text /\ ~s.ellipsis
     ELSE s.chars = SummaryChars /\ s.ellipsis

\* C15: when the remote call yields null the record is exactly: no emotions,
\* no core concerns, no key phrases, the one fixed encouragement as growth
\* tip, the truncated text as summary; the mood score is 0.0.
C15_DefaultsWhenCallGivesNull ==
  full_analysis.top = "null" /\ journal_pc # "called" =>
    /\ Assembled
    /\ analysis.raised = "none"
    /\ analysis.emotions.keys = {}
    /\ analysis.coreConcerns = "[]"
    /\ analysis.keyPhrases = "[]"
    /\ analysis.growthTips = "[encouragement]"
    /\ IsTruncatedText(analysis.summary)
    /\ journal_pc = "responded" => moodScore.num = 0

\* C15 witness: the call gave null for a text of more than 150 characters,
\* and the response has its mood score
C15_Witness ==
  /\ full_analysis.top = "null" /\ journal_pc = "responded"
  /\ journal_text > SummaryChars /\ analysis.summary.ellipsis
  /\ moodScore.num = 0

\* C16: if the sum of the coerced scores is positive and differs from 1.0
\* by more than 0.01, every output score is the coerced score divided by
\* that sum, and the output sums to 1.0; otherwise the output scores are the
\* coerced scores.
C16_NormalizedBySum ==
  Assembled /\ HasMapping =>
    LET scores == full_analysis.emotions.scores
        coerced == [l \in Labels |-> FloatOf(scores[l])]
        sum == SumOver(coerced, Keys(scores))
        out == analysis.emotions
    IN /\ out.den > 0
       /\ IF sum > 0 /\ (sum - ScoreOne > ScoreTolerance \/ ScoreOne - sum > ScoreTolerance)
          THEN /\ \A l \in Keys(scores) : out.num[l] * sum = coerced[l] * out.den
               /\ SumOver(out.num, Keys(scores)) = out.den
          ELSE \A l \in Keys(scores) : out.num[l] * ScoreOne = coerced[l] * out.den

\* C16 witness: scores that sum to more than 1.01 were divided by their sum
C16_Witness ==
  /\ Assembled /\ HasMapping
  /\ analysis.emotions.den > ScoreOne + ScoreTolerance
  /\ \E l \in analysis.emotions.keys : analysis.emotions.num[l] > 0

\* C17: after normalization every emotion score of the record is
\* non-negative, whatever the remote mapping holds, and the record has
\* exactly the keys of the remote mapping.
C17_ScoresNonNegativeKeysKept ==
  Assembled /\ HasMapping =>
    /\ \A l \in analysis.emotions.keys : analysis.emotions.num[l] >= 0
    /\ analysis.emotions.keys = Keys(full_analysis.emotions.scores)

\* C18: each of coreConcerns, growthTips and keyPhrases is the empty
\* sequence whenever the remote value of the field is not a sequence, and
\* summary is the truncated text whenever the remote summary is not a string.
C18_NonSequencesBecomeEmpty ==
  Assembled /\ full_analysis.top = "object" =>
    /\ full_analysis.coreConcerns = "not_list" => analysis.coreConcerns = "[]"
    /\ full_analysis.growthTips = "not_list" => analysis.growthTips = "[]"
    /\ full_analysis.keyPhrases = "not_list" => analysis.keyPhrases = "[]"
    /\ full_analysis.summary = "not_str" => IsTruncatedText(analysis.summary)

\* C18 as amended: coreConcerns and keyPhrases are the empty sequence and
\* growthTips is the one fixed encouragement whenever the remote value of the
\* field is not a sequence, and summary is the truncated text whenever the
\* remote summary is not a string.
C18_NonSequencesBecomeDefaults ==
  Assembled /\ full_analysis.top = "object" =>
    /\ full_analysis.coreConcerns = "not_list" => analysis.coreConcerns = "[]"
    /\ full_analysis.growthTips = "not_list" => analysis.growthTips = "[encouragement]"
    /\ full_analysis.keyPhrases = "not_list" => analysis.keyPhrases = "[]"
    /\ full_analysis.summary = "not_str" => IsTruncatedText(analysis.summary)

\* C18 witness: a record was assembled from an object none of whose four
\* fields has the shape asked for
C18_Witness ==
  /\ Assembled /\ full_analysis.top = "object"
  /\ full_analysis.coreConcerns = "not_list" /\ full_analysis.growthTips = "not_list"
  /\ full_analysis.keyPhrases = "not_list" /\ full_analysis.summary = "not_str"
  /\ analysis.growthTips = "[encouragement]" /\ analysis.summary.source = "journal_text"

\* C19: whatever is malformed in a parsed remote value (emotions that is
\* not a mapping, non-numeric scores, lists that are not lists, a value that
\* is not an object), the assembler returns a record: the analysis never fails.
C19_MalformedNeverFails ==
  journal_pc # "called" /\ full_analysis.top # "null" =>
    Assembled /\ analysis.raised = "none"

\* C20: the mood score lies in [-1.0, 1.0] whenever all scores are
\* non-negative and their sum is positive; it is 0.0 when the mapping is
\* empty or the scores sum to 0; labels are looked up whatever their case
\* and unknown labels weigh 0.
C20_MoodScoreBounded ==
  journal_pc = "responded" =>
    LET e == analysis.emotions
        sum == SumOver(e.num, e.keys)
    IN /\ moodScore.den > 0
       /\ (\A l \in e.keys : e.num[l] >= 0) /\ sum > 0 =>
            /\ -moodScore.den <= moodScore.num /\ moodScore.num <= moodScore.den
            /\ moodScore.num * sum = moodScore.den * (e.num["Joy"] - e.num["sadness"])
       /\ e.keys = {} \/ sum = 0 => moodScore.num = 0

\* C20 witness: a mood score strictly between 0 and 1 from a mapping with a
\* capitalised label and an unknown one, both with positive scores
C20_Witness ==
  /\ journal_pc = "responded"
  /\ {"Joy", "zest"} \subseteq analysis.emotions.keys
  /\ \A l \in analysis.emotions.keys : analysis.emotions.num[l] >= 0
  /\ analysis.emotions.num["Joy"] > 0 /\ analysis.emotions.num["zest"] > 0
  /\ moodScore.num > 0 /\ moodScore.num < moodScore.den

\* C30: a reply with a success status whose content then fails (a moderation
\* block, missing candidates or parts, or structured text that decodes
\* neither as it is nor from a fenced block) is never retried: the invoke is
\* over with null after that attempt, for which the gate was acquired once,
\* and no backoff sleep follows.
C30_ContentFailureNeverRetried ==
  \A t \in Threads :
    IsClient(t) /\ last_content[t] \in {"blocked", "no_candidates", "undecoded_text"} =>
      /\ pc[t] = "done"
      /\ result[t] = "null" /\ escaped[t] = "none"
      /\ acquires[t] = attempt_number[t] /\ posts[t] = attempt_number[t]
      /\ wake_at[t] = 0

\* C30 witness: after a retried attempt, an invoke ended on a reply with a
\* success status whose structured text decodes in neither way
C30_Witness ==
  \E t \in Threads : /\ IsClient(t) /\ pc[t] = "done" /\ attempt_number[t] = 2
                     /\ last_content[t] = "undecoded_text" /\ result[t] = "null"
                     /\ acquires[t] = 2

Returned(t) == tr_pc[t] = "returned"
NullResult(t) == tr_result[t] = NoModel

\* C25 as it is written: train returns null when texts is empty, when it has
\* one text, and whenever min(requested_k, len(texts)) <= 1; it trains with
\* len(texts) clusters when requested_k > len(texts) >= 2 and with
\* requested_k clusters otherwise.
C25_NullOrClampedClusters ==
  \A t \in Threads : Returned(t) /\ tr_k[t].kind = "int" =>
    LET len == tr_len[t]
        requested_k == tr_k[t].val
    IN /\ len = 0 \/ len = 1 \/ requested_k <= 1 => NullResult(t)
       /\ requested_k > len /\ len >= 2 =>
            ~NullResult(t) /\ tr_result[t].n_clusters = len
       /\ requested_k <= len /\ requested_k >= 2 =>
            ~NullResult(t) /\ tr_result[t].n_clusters = requested_k

\* C25, amended: the same, said of a service whose embedding model is
\* loaded; when it is not, train returns null whatever it is given.
C25_NullOrClampedWhenLoaded ==
  \A t \in Threads : Returned(t) /\ tr_k[t].kind = "int" =>
    LET len == tr_len[t]
        requested_k == tr_k[t].val
    IN /\ len = 0 \/ len = 1 \/ requested_k <= 1 => NullResult(t)
       /\ sentence_model = "None" => NullResult(t)
       /\ sentence_model = "loaded" /\ requested_k > len /\ len >= 2 =>
            ~NullResult(t) /\ tr_result[t].n_clusters = len
       /\ sentence_model = "loaded" /\ requested_k <= len /\ requested_k >= 2 =>
            ~NullResult(t) /\ tr_result[t].n_clusters = requested_k

\* C25 witness: a train call that asked for more clusters than it had texts
\* returned a model with as many clusters as texts
C25_Witness ==
  \E t \in Threads : /\ Returned(t) /\ sentence_model = "loaded"
                     /\ tr_k[t] = [kind |-> "int", val |-> MaxTexts + 1]
                     /\ tr_len[t] = MaxTexts
                     /\ tr_result[t].n_clusters = MaxTexts

\* C26: over train calls served one after the other, a call that returns a
\* model replaces its user's file by that model and no other file, a call
\* that returns null leaves every file as it was, and a user who had a model
\* has one afterwards.
C26_StoreChangesOnlyByOwnTrain ==
  \A t \in Threads : Returned(t) =>
    /\ NullResult(t) => store = store_before[t]
    /\ ~NullResult(t) =>
         /\ store[tr_user[t]] = BlobOf(tr_result[t].id)
         /\ \A u \in Users \ {tr_user[t]} : store[u] = store_before[t][u]
    /\ \A u \in Users : WholeBlob(store_before[t][u]) => WholeBlob(store[u])

\* C26 witness: a user's second train replaced the user's earlier model
\* while another user's model stayed
C26_Witness ==
  \E t \in Threads, u \in Users \ {1} :
    /\ Returned(t) /\ ~NullResult(t) /\ tr_user[t] = 1
    /\ WholeBlob(store_before[t][1]) /\ store_before[t][1] # store[1]
    /\ WholeBlob(store[u]) /\ store[u] = store_before[t][u]

\* C27: when two train calls for one user run at the same time, the file
\* they leave, and whatever a load reads while they run, is wholly the model
\* of one of the two.
C27_WholeBlobUnderRace ==
  /\ \A t \in Threads :
       /\ raced[t] /\ (\A o \in Threads : tr_user[o] = tr_user[t] => ~Training(o))
       /\ store[tr_user[t]].exists
       => WholeBlob(store[tr_user[t]])
  /\ \A t \in Threads :
       loaded[t].during = 2 /\ loaded[t].file.exists => WholeBlob(loaded[t].file)

\* the groups of the labelling call that hold at least one text
Groups == {g \in 0..(MaxTexts - 1) :
             \E i \in 1..Len(kmeans_model.labels_) : i <= label_len /\ kmeans_model.labels_[i] = g}

\* C28: when the extraction of a group raises, TF-IDF fitting or tagging,
\* the group gets the error placeholder under its theme key and the other
\* groups are still processed: the result has one entry for every group
\* that holds a text, and no other.
C28_FailedGroupGetsPlaceholder ==
  label_pc = "returned" /\ kmeans_model # NoKMeans /\ label_len > 0 =>
    /\ ~cluster_themes.raised
    /\ \A key \in ThemeKeys : (cluster_themes.themes[key] # "absent") <=> (key - 1 \in Groups)
    /\ \A g \in Groups :
         extraction[g] \in {"fit_raises", "pos_tag_raises"}
           <=> cluster_themes.themes[g + 1] = "Error Theme"

\* C28 witness: of three groups, tagging raised in one and fitting in
\* another, and the third has its keywords
C28_Witness ==
  /\ label_pc = "returned" /\ Groups = {0, 1, 2}
  /\ extraction[0] = "pos_tag_raises" /\ extraction[1] = "fit_raises"
  /\ extraction[2] = "keywords"
  /\ cluster_themes.themes[1] = "Error Theme" /\ cluster_themes.themes[2] = "Error Theme"
  /\ cluster_themes.themes[3] = "keywords or General Theme"

\* ------------------------------------------- claims on the detector -----
AnomalyReturned == anomaly_pc = "returned"

\* C21: detect_anomalies never raises for insufficient or partial input: an
\* empty list (ewma) or a list of fewer than 7 days (window) returns an
\* empty anomaly list with an explanatory message, and days whose
\* averageMood or totalWords is missing or non-numeric are skipped rather
\* than causing an error.
C21_NeverRaises ==
  AnomalyReturned =>
    /\ anomaly_result.raised = "none"
    /\ (variant = "ewma" /\ daily_data_list = <<>>) =>
         anomaly_result.anomalies = <<>> /\ anomaly_result.message = NoData
    /\ (variant = "window" /\ Len(daily_data_list) < window_size) =>
         anomaly_result.anomalies = <<>> /\ anomaly_result.message = NotEnough

\* the days in the order of their dates, as the caller gave them
Sorted == SortByDate(daily_data_list)
Numeric(x) == x >= 0
OtherOf(key) == IF key = "averageMood" THEN "totalWords" ELSE "averageMood"
FlagOf(key) == IF key = "averageMood" THEN "mood" ELSE "words"
Flagged(res, date, flag) ==
  \E k \in 1..Len(res.anomalies) :
    res.anomalies[k].date = date /\ flag \in res.anomalies[k].type

\* the metric holds one number on the days before day d, six of them at
\* least, and another number on day d
ChangesOn(df, key, d) ==
  /\ d >= 7 /\ d <= Len(df)
  /\ \A i \in 1..d : Numeric(df[i][key])
  /\ \A i \in 1..(d - 1) : df[i][key] = df[1][key]
  /\ df[d][key] # df[1][key]

\* the metric has a deviation on day d: a number on that day and on an
\* earlier day, one of the six days before it under the window revision,
\* which moreover is handed no value that is not a number
HasDeviation(v, df, key, d) ==
  /\ Numeric(df[d][key])
  /\ \E i \in 1..(d - 1) : Numeric(df[i][key]) /\ (v = "window" => i > d - window_size)
  /\ v = "window" => \A i \in 1..Len(df), k \in Metrics : df[i][k] # NonNumeric

\* C22 as stated: where a metric has the same value on at least 6 leading
\* days and a different value on the next day, that day is flagged as an
\* anomaly of that metric.
C22_ChangeIsFlagged ==
  AnomalyReturned =>
    LET df == Sorted
    IN  \A key \in Metrics, d \in 1..Len(df) :
          ChangesOn(df, key, d) => Flagged(anomaly_result, df[d].date, FlagOf(key))

\* C22 amended: where a metric has the same value on at least 6 leading
\* days and a different value on the next day, that day is flagged as an
\* anomaly of that metric provided the other metric has a deviation on that
\* day; without one the day is skipped and flagged for nothing.
C22_ChangeIsFlaggedUnlessSkipped ==
  AnomalyReturned =>
    LET df == Sorted
    IN  \A key \in Metrics, d \in 1..Len(df) :
          ChangesOn(df, key, d) =>
            IF HasDeviation(variant, df, OtherOf(key), d)
            THEN Flagged(anomaly_result, df[d].date, FlagOf(key))
            ELSE \A flag \in {"mood", "words"} : ~Flagged(anomaly_result, df[d].date, flag)

\* mood 0.5 on days 1-6 and 0.9 on day 7 of a longer list: day 7 is flagged
\* for mood
C22_Witness ==
  /\ AnomalyReturned
  /\ variant = "ewma"
  /\ Len(daily_data_list) > 7
  /\ ChangesOn(Sorted, "averageMood", 7)
  /\ Sorted[1].averageMood = 5 /\ Sorted[7].averageMood = 9
  /\ Flagged(anomaly_result, 7, "mood")

\* both metrics hold the same number on every day of the list
Constant(days) ==
  \A i \in 1..Len(days), key \in Metrics :
    Numeric(days[i][key]) /\ days[i][key] = days[1][key]

\* the list is too short for the revision to look at it
TooShort(v, days) == IF v = "ewma" THEN days = <<>> ELSE Len(days) < window_size

\* C23 as stated: for a list of any length in which averageMood and
\* totalWords are each the same value on every day, detect_anomalies returns
\* an empty anomaly list and the "no significant anomalies" message.
C23_ConstantNoneSignificant ==
  (AnomalyReturned /\ Constant(daily_data_list)) =>
    /\ anomaly_result.raised = "none"
    /\ anomaly_result.anomalies = <<>>
    /\ anomaly_result.message = NoneSignificant

\* C23 amended: for such a list detect_anomalies returns an empty anomaly
\* list, with the "no significant anomalies" message when the list is not
\* too short for the revision (not empty; of 7 days at least under the
\* window revision) and with the message of the early return when it is.
C23_ConstantNoneFlagged ==
  (AnomalyReturned /\ Constant(daily_data_list)) =>
    /\ anomaly_result.raised = "none"
    /\ anomaly_result.anomalies = <<>>
    /\ anomaly_result.message =
         IF ~TooShort(variant, daily_data_list) THEN NoneSignificant
         ELSE IF variant = "ewma" THEN NoData ELSE NotEnough

\* a week or more of constant days went through the scan of routes.py
C23_Witness ==
  /\ AnomalyReturned
  /\ variant = "ewma"
  /\ Constant(daily_data_list)
  /\ Len(daily_data_list) >= ewma_span
  /\ anomaly_result.message = NoneSignificant

\* the list with the metric set to its usual value on every day
WithMetric(days, key) == [i \in 1..Len(days) |-> [days[i] EXCEPT ![key] = BaseDay[key]]]

\* what a call decides for each day, in the order of the dates: the flags
\* of the day, or that it did not look at the day or skipped it
Skipped == {"skipped"}
DayFlags(v, days) ==
  IF BeforeScan(v, days) # NoAnomalyResult THEN [i \in 1..Len(days) |-> Skipped]
  ELSE LET df == Frame(v, days)
       IN  [i \in 1..Len(df) |->
              IF i < StartIdx(v, Len(df)) \/ Skips(df[i]) THEN Skipped
              ELSE TypesOf(v, df[i])]

\* C24 as stated: for two lists that agree on every averageMood and differ
\* only in totalWords, a missing totalWords included, every day receives the
\* same mood flag in both outputs, and symmetrically for words.
C24_FlagsIndependent ==
  AnomalyReturned =>
    \A key \in Metrics :
      \A one \in {DayFlags(variant, daily_data_list)},
         two \in {DayFlags(variant, WithMetric(daily_data_list, OtherOf(key)))} :
        \A i \in 1..Len(daily_data_list) : (FlagOf(key) \in one[i]) = (FlagOf(key) \in two[i])

\* C24 amended: for two such lists every day that both calls look at and
\* neither skips receives the same mood flag in both outputs, and
\* symmetrically for words; a day on which the other metric is missing, or
\* has no deviation yet, is skipped and receives no flag at all.
C24_FlagsIndependentUnlessSkipped ==
  AnomalyReturned =>
    \A one \in {DayFlags(variant, daily_data_list)}, df \in {Sorted} :
      \A key \in Metrics :
        \A two \in {DayFlags(variant, WithMetric(daily_data_list, OtherOf(key)))} :
          \A i \in 1..Len(df) :
            /\ (one[i] # Skipped /\ two[i] # Skipped) =>
                 (FlagOf(key) \in one[i]) = (FlagOf(key) \in two[i])
            /\ ~HasDeviation(variant, df, OtherOf(key), i) => one[i] = Skipped
            /\ one[i] = Skipped =>
                 \A flag \in {"mood", "words"} : ~Flagged(anomaly_result, df[i].date, flag)

\* a day is flagged for mood in a list that holds an unusual totalWords
C24_Witness ==
  /\ AnomalyReturned
  /\ \E i, j \in 1..Len(daily_data_list) :
       /\ Sorted[j].totalWords # BaseDay.totalWords
       /\ Flagged(anomaly_result, Sorted[i].date, "mood")

====
